---------------------------- MODULE Spec2Model ----------------------------
(***************************************************************************)
(* A model of the referee finder (mattschwartz691/referee-finder).         *)
(*                                                                         *)
(* Strings are sequences of one-character strings, so that the string      *)
(* functions of the program (strip, split, replace, the regular            *)
(* expressions of normalize_arxiv_id, the name normalisation) are computed  *)
(* character by character as the Python code computes them.                *)
(*                                                                         *)
(* Non-integer quantities (relevance scores) are exact rationals, kept as   *)
(* a record [num, den] with den > 0.                                        *)
(***************************************************************************)
EXTENDS Integers, Sequences, FiniteSets, TLC

(***************************************************************************)
(* Bounds of the model (not program constants).                            *)
(***************************************************************************)
\* number of fragments an identifier handed to normalize_arxiv_id is built of
MaxFrags == 4

\* Python's None where the other values are strings
None == "None"
\* None where the other values are years
NoYear == -1
\* an upstream response: no data after the retries, or the records received
Failed == [ok |-> FALSE, hits |-> <<>>]
Ok(hits) == [ok |-> TRUE, hits |-> hits]

(***************************************************************************)
(* State.  Each specification below runs one part of the program and       *)
(* leaves the variables of the other parts idle.                           *)
(***************************************************************************)
\* normalize_arxiv_id applied to an identifier, and to its own result
VARIABLES nz_pc, nz_in, nz_once, nz_twice

normVars == <<nz_pc, nz_in, nz_once, nz_twice>>

\* one invocation of find_referees
VARIABLES
    args,               \* num_candidates, niche_only, topic_weight, citation_weight
    world,              \* which author records upstream holds
    pc,                 \* the statement find_referees is at
    error,              \* the exception find_referees raised, or None
    paper,              \* the target paper
    topic_keywords,
    target_mainstream,  \* in hundredths
    topic_refs, method_refs,
    co_citing_papers, topic_papers, all_papers,
    cp_i,               \* index of the next paper of all_papers to collect
    seen_papers,
    author_data,        \* the entries of the dict, in insertion order
    sorted_authors,
    ev_i,               \* index of the next entry of sorted_authors to evaluate
    candidates, evaluated, skipped_reasons,
    result,             \* the list returned
    inspire_log         \* the Citation Graph Adapter calls made so far

finderVars ==
    <<args, world, pc, error, paper, topic_keywords, target_mainstream, topic_refs,
      method_refs, co_citing_papers, topic_papers, all_papers, cp_i, seen_papers,
      author_data, sorted_authors, ev_i, candidates, evaluated, skipped_reasons,
      result, inspire_log>>

\* One call of a pure function: its arguments and the value it returned.
VARIABLES
    fn_pc,              \* "call" before the call, "done" after it
    fn_in,              \* the arguments
    fn_out              \* the value returned

pureVars == <<fn_pc, fn_in, fn_out>>

(***************************************************************************)
(* Python string primitives on character sequences.                        *)
(***************************************************************************)
UpperChars == <<"A","B","C","D","E","F","G","H","I","J","K","L","M","N","O","P","Q","R","S","T","U","V","W","X","Y","Z">>
LowerChars == <<"a","b","c","d","e","f","g","h","i","j","k","l","m","n","o","p","q","r","s","t","u","v","w","x","y","z">>

\* str.lower() on one character
LowerChar(c) ==
    IF \E i \in 1..26 : UpperChars[i] = c
    THEN LowerChars[CHOOSE i \in 1..26 : UpperChars[i] = c]
    ELSE c

\* str.lower()
Lower(s) == [i \in 1..Len(s) |-> LowerChar(s[i])]

\* the characters str.strip() and str.split() treat as whitespace
IsSpace(c) == c \in {" ", "\t", "\n"}

StartsWith(s, p) == Len(s) >= Len(p) /\ SubSeq(s, 1, Len(p)) = p

Drop(s, n) == SubSeq(s, n + 1, Len(s))

RECURSIVE LStrip(_)
LStrip(s) == IF s # <<>> /\ IsSpace(Head(s)) THEN LStrip(Tail(s)) ELSE s

RECURSIVE RStrip(_)
RStrip(s) ==
    IF s # <<>> /\ IsSpace(s[Len(s)]) THEN RStrip(SubSeq(s, 1, Len(s) - 1)) ELSE s

\* str.strip()
Strip(s) == RStrip(LStrip(s))

\* str.replace(pat, ''): every non-overlapping occurrence, left to right
RECURSIVE RemoveAll(_, _)
RemoveAll(s, pat) ==
    IF s = <<>> THEN <<>>
    ELSE IF StartsWith(s, pat) THEN RemoveAll(Drop(s, Len(pat)), pat)
    ELSE <<Head(s)>> \o RemoveAll(Tail(s), pat)

\* pat in s (substring test)
RECURSIVE Contains(_, _)
Contains(s, pat) ==
    IF StartsWith(s, pat) THEN TRUE
    ELSE IF s = <<>> THEN FALSE
    ELSE Contains(Tail(s), pat)

\* the tokens of str.split(): maximal runs of non-whitespace characters
RECURSIVE SplitWS(_, _, _)
SplitWS(s, cur, acc) ==
    IF s = <<>> THEN (IF cur = <<>> THEN acc ELSE Append(acc, cur))
    ELSE IF IsSpace(Head(s))
         THEN SplitWS(Tail(s), <<>>, IF cur = <<>> THEN acc ELSE Append(acc, cur))
         ELSE SplitWS(Tail(s), Append(cur, Head(s)), acc)

Split(s) == SplitWS(s, <<>>, <<>>)

\* str.split(sep) for a one-character separator: empty pieces are kept
RECURSIVE SplitOnAcc(_, _, _, _)
SplitOnAcc(s, sep, cur, acc) ==
    IF s = <<>> THEN Append(acc, cur)
    ELSE IF Head(s) = sep THEN SplitOnAcc(Tail(s), sep, <<>>, Append(acc, cur))
    ELSE SplitOnAcc(Tail(s), sep, Append(cur, Head(s)), acc)

SplitOn(s, sep) == SplitOnAcc(s, sep, <<>>, <<>>)

\* " ".join(parts)
RECURSIVE JoinSpace(_)
JoinSpace(parts) ==
    IF parts = <<>> THEN <<>>
    ELSE IF Len(parts) = 1 THEN parts[1]
    ELSE parts[1] \o <<" ">> \o JoinSpace(Tail(parts))

Reversed(q) == [i \in 1..Len(q) |-> q[Len(q) + 1 - i]]

RECURSIVE Flatten(_)
Flatten(q) == IF q = <<>> THEN <<>> ELSE Head(q) \o Flatten(Tail(q))

\* the sequences over S of length at most n
SeqsUpTo(S, n) == UNION {[1..k -> S] : k \in 0..n}

(***************************************************************************)
(* ArxivClient.normalize_arxiv_id                                          *)
(***************************************************************************)
S_http == <<"h","t","t","p",":","/","/">>
S_https == <<"h","t","t","p","s",":","/","/">>
S_www == <<"w","w","w",".">>
S_arxiv_org == <<"a","r","x","i","v",".","o","r","g","/">>
S_abs == <<"a","b","s","/">>
S_pdf == <<"p","d","f","/">>
S_dotpdf == <<".","p","d","f">>
S_arxiv_colon == <<"a","r","x","i","v",":">>

\* the strings the pattern ^(https?://)?(www\.)?arxiv\.org/(abs|pdf)/ can match
UrlPrefixes ==
    { sch \o w \o S_arxiv_org \o d :
        sch \in {<<>>, S_http, S_https}, w \in {<<>>, S_www}, d \in {S_abs, S_pdf} }

\* re.sub(r'^(https?://)?(www\.)?arxiv\.org/(abs|pdf)/', '', s)
StripUrlPrefix(s) ==
    IF \E p \in UrlPrefixes : StartsWith(s, p)
    THEN Drop(s, Len(CHOOSE p \in UrlPrefixes : StartsWith(s, p)))
    ELSE s

\* re.sub(r'^arXiv:', '', s, flags=re.IGNORECASE)
StripArxivPrefix(s) ==
    IF Len(s) >= 6 /\ Lower(SubSeq(s, 1, 6)) = S_arxiv_colon THEN Drop(s, 6) ELSE s

normalize_arxiv_id(arxiv_id) ==
    StripArxivPrefix(RemoveAll(StripUrlPrefix(Strip(arxiv_id)), S_dotpdf))

\* what identifiers handed to the program are built of
F_arXiv == <<"a","r","X","i","v",":">>
F_ARXIV == <<"A","R","X","I","V",":">>
F_abs == S_arxiv_org \o S_abs
F_pdfdir == S_arxiv_org \o S_pdf
F_id == <<"2","4","0","1",".","1","2","3","4","5">>
F_v2 == <<"v","2">>
Fragments ==
    { S_https, S_http, S_www, F_abs, F_pdfdir, F_arXiv, F_ARXIV, S_dotpdf, <<" ">>, F_id, F_v2 }

IdentifierInputs == { Flatten(q) : q \in SeqsUpTo(Fragments, MaxFrags) }

NormIdle == nz_pc = "idle" /\ nz_in = <<>> /\ nz_once = <<>> /\ nz_twice = <<>>

NormInit ==
    /\ nz_pc = "call"
    /\ nz_in \in IdentifierInputs
    /\ nz_once = <<>>
    /\ nz_twice = <<>>

\* normalize_arxiv_id(x)
Normalize ==
    /\ nz_pc = "call"
    /\ nz_once' = normalize_arxiv_id(nz_in)
    /\ nz_pc' = "once"
    /\ UNCHANGED <<nz_in, nz_twice>>
    /\ UNCHANGED <<finderVars, pureVars>>

\* normalize_arxiv_id(normalize_arxiv_id(x))
NormalizeAgain ==
    /\ nz_pc = "once"
    /\ nz_twice' = normalize_arxiv_id(nz_once)
    /\ nz_pc' = "twice"
    /\ UNCHANGED <<nz_in, nz_once>>
    /\ UNCHANGED <<finderVars, pureVars>>

(***************************************************************************)
(* utils.normalize_author_name, utils.names_match and                      *)
(* InspireClient._normalize_name                                           *)
(***************************************************************************)
CommaJoined(name) ==
    IF \E i \in 1..Len(name) : name[i] = ","
    THEN LET parts == SplitOn(name, ",")
         IN  JoinSpace(Reversed([i \in 1..Len(parts) |-> Strip(parts[i])]))
    ELSE name

\* a plausible slip: a "Last, First" name is not turned round
normalize_author_name_NoComma(name) ==
    LET n1 == JoinSpace(Split(Lower(name)))
        parts == Split(n1)
    IN  IF Len(parts) > 2 THEN parts[1] \o <<" ">> \o parts[Len(parts)] ELSE n1

\* utils.normalize_author_name
normalize_author_name(name) ==
    LET n1 == JoinSpace(Split(Lower(CommaJoined(name))))
        parts == Split(n1)
    IN  IF Len(parts) > 2 THEN parts[1] \o <<" ">> \o parts[Len(parts)] ELSE n1

\* names_match raises IndexError: parts1[-1] or parts2[-1] of an empty list
names_match_raises(name1, name2) ==
    LET n1 == normalize_author_name(name1)
        n2 == normalize_author_name(name2)
    IN  n1 # n2 /\ (Split(n1) = <<>> \/ Split(n2) = <<>>)

\* a plausible slip: the whole first tokens compared, not their initials
names_match_FullFirst(name1, name2) ==
    LET n1 == normalize_author_name(name1)
        n2 == normalize_author_name(name2)
        parts1 == Split(n1)
        parts2 == Split(n2)
    IN  IF n1 = n2 THEN TRUE
        ELSE IF parts1[Len(parts1)] # parts2[Len(parts2)] THEN FALSE
        ELSE parts1[1] = parts2[1]

\* a plausible slip: the first name tested as a substring of the second
names_match_Substring(name1, name2) ==
    LET n1 == normalize_author_name(name1)
        n2 == normalize_author_name(name2)
    IN  IF n1 = n2 THEN TRUE ELSE Contains(n2, n1)

\* the value names_match returns when it does not raise
names_match(name1, name2) ==
    LET n1 == normalize_author_name(name1)
        n2 == normalize_author_name(name2)
        parts1 == Split(n1)
        parts2 == Split(n2)
    IN  IF n1 = n2 THEN TRUE
        ELSE IF parts1[Len(parts1)] # parts2[Len(parts2)] THEN FALSE
        ELSE parts1[1][1] = parts2[1][1]

\* InspireClient._normalize_name: no token is dropped
_normalize_name(name) == JoinSpace(Split(Lower(CommaJoined(name))))

(***************************************************************************)
(* models.Author.career_stage and models.RefereeCandidate.is_eligible      *)
(***************************************************************************)
\* datetime.now().year
CurrentYear == 2026

\* InspireClient.RANK_MAP; None for VISITOR and for a rank that is no key
RANK_MAP(rank) ==
    CASE rank \in {"UNDERGRADUATE", "MASTER", "PHD"} -> "Graduate Student"
      [] rank = "POSTDOC" -> "Postdoc"
      [] rank = "JUNIOR" -> "Junior Faculty"
      [] rank = "SENIOR" -> "Senior"
      [] rank = "STAFF" -> "Mid-Career"
      [] OTHER -> None

\* Author.career_years: None when first_paper_year is None or 0 (falsy)
career_years(author) ==
    IF author.first_paper_year # NoYear /\ author.first_paper_year # 0
    THEN [is_None |-> FALSE, years |-> CurrentYear - author.first_paper_year]
    ELSE [is_None |-> TRUE, years |-> 0]

\* a plausible slip: the fifth year already counted as Junior Faculty
career_stage_FiveIsJunior(author) ==
    IF author._rank_stage # None THEN author._rank_stage
    ELSE LET cy == career_years(author)
             years == cy.years
         IN  IF cy.is_None THEN None
             ELSE IF 2 <= years /\ years < 5 THEN "Postdoc"
             ELSE IF 5 <= years /\ years <= 10 THEN "Junior Faculty"
             ELSE IF 10 < years /\ years <= 20 THEN "Mid-Career"
             ELSE IF years < 2 THEN "Graduate Student"
             ELSE "Senior"

\* Author.career_stage
career_stage(author) ==
    IF author._rank_stage # None THEN author._rank_stage
    ELSE LET cy == career_years(author)
             years == cy.years
         IN  IF cy.is_None THEN None
             ELSE IF 2 <= years /\ years <= 5 THEN "Postdoc"
             ELSE IF 5 < years /\ years <= 10 THEN "Junior Faculty"
             ELSE IF 10 < years /\ years <= 20 THEN "Mid-Career"
             ELSE IF years < 2 THEN "Graduate Student"
             ELSE "Senior"

\* a plausible slip: eligibility also asks for a positive relevance score
is_eligible_ScoreGated(candidate) ==
    /\ career_stage(candidate.author) \in {"Postdoc", "Junior Faculty", "Mid-Career"}
    /\ candidate.relevance_score.num > 0

\* RefereeCandidate.is_eligible
is_eligible(candidate) ==
    career_stage(candidate.author) \in {"Postdoc", "Junior Faculty", "Mid-Career"}

(***************************************************************************)
(* The upstream data find_referees runs against.                           *)
(***************************************************************************)
\* largest num_candidates asked for
MaxNum == 1
\* largest number of records in one upstream response
MaxHits == 1

N_EdwardWitten == <<"E","d","w","a","r","d"," ","W","i","t","t","e","n">>
N_WittenEdward == <<"W","i","t","t","e","n",","," ","E","d","w","a","r","d">>
N_WittenE == <<"W","i","t","t","e","n",","," ","E",".">>
N_JaneSmith == <<"J","a","n","e"," ","S","m","i","t","h">>
N_SmithJane == <<"S","m","i","t","h",","," ","J","a","n","e">>
N_JohnSmith == <<"J","o","h","n"," ","S","m","i","t","h">>
N_AnnLee == <<"A","n","n"," ","L","e","e">>
N_BobRay == <<"B","o","b"," ","R","a","y">>
\* an author record without full_name
N_Empty == <<>>

\* The author names of the upstream records are kept as strings; Spelling
\* gives the characters of each, on which the name functions work.
Spelling(name) ==
    CASE name = "Edward Witten" -> N_EdwardWitten
      [] name = "Witten, Edward" -> N_WittenEdward
      [] name = "Witten, E." -> N_WittenE
      [] name = "Jane Smith" -> N_JaneSmith
      [] name = "Smith, Jane" -> N_SmithJane
      [] name = "John Smith" -> N_JohnSmith
      [] name = "Ann Lee" -> N_AnnLee
      [] name = "Bob Ray" -> N_BobRay
      [] name = "Cy Doe" -> <<"C","y"," ","D","o","e">>
      [] name = "Di Fox" -> <<"D","i"," ","F","o","x">>
      [] name = "Ed Gil" -> <<"E","d"," ","G","i","l">>
      [] name = "Flo Orr" -> <<"F","l","o"," ","O","r","r">>
      [] name = "Gus Pym" -> <<"G","u","s"," ","P","y","m">>
      [] name = "Hal Roe" -> <<"H","a","l"," ","R","o","e">>
      [] name = "Ida Sol" -> <<"I","d","a"," ","S","o","l">>
      [] name = "Jo Tan" -> <<"J","o"," ","T","a","n">>
      [] name = "Kit Ure" -> <<"K","i","t"," ","U","r","e">>
      [] name = "Lu Vos" -> <<"L","u"," ","V","o","s">>
      [] name = "Mo Wu" -> <<"M","o"," ","W","u">>
      [] name = "" -> N_Empty

\* What ArxivClient.fetch_paper can return for the target: its authors, and
\* the keywords the patterns of _extract_topic_keywords find in its title and
\* abstract (niche includes the title's trailing "in ..." phrase).
TargetPapers ==
    { [arxiv_id |-> "t1", authors |-> <<"Edward Witten">>,
       niche |-> <<"dark matter">>, broad |-> <<"black holes">>,
       method |-> <<"loop corrections">>],
      [arxiv_id |-> "t2", authors |-> <<"Witten, Edward", "John Smith">>,
       niche |-> <<>>, broad |-> <<>>, method |-> <<"scattering amplitudes">>] }

\* The literature records a citing-papers or topic query can hit, most recent
\* first.  refs: the target's references the record cites; in_window: its
\* earliest_date parses and lies in the date window.
Hits ==
    << [arxiv_id |-> "p1", authors |-> <<"Jane Smith", "Ann Lee", "Bob Ray">>,
        num_authors |-> 3,
        refs |-> {1, 2}, in_window |-> TRUE, has_arxiv |-> TRUE],
       [arxiv_id |-> "p2", authors |-> <<"Witten, E.", "Bob Ray">>, num_authors |-> 2,
        refs |-> {1}, in_window |-> TRUE, has_arxiv |-> TRUE],
       [arxiv_id |-> "p3", authors |-> <<"Ann Lee", "Bob Ray">>, num_authors |-> 16,
        refs |-> {1, 2}, in_window |-> TRUE, has_arxiv |-> TRUE],
       [arxiv_id |-> "p4", authors |-> <<"John Smith">>, num_authors |-> 1,
        refs |-> {2, 3}, in_window |-> TRUE, has_arxiv |-> TRUE],
       [arxiv_id |-> "p5", authors |-> <<"", "Ann Lee">>, num_authors |-> 2,
        refs |-> {3}, in_window |-> TRUE, has_arxiv |-> TRUE],
       [arxiv_id |-> "p6", authors |-> <<"Bob Ray">>, num_authors |-> 1,
        refs |-> {1, 2, 3}, in_window |-> FALSE, has_arxiv |-> TRUE] >>

\* one query's response, sorted most recent first: a sublist of Hits
SubLists(n) ==
    { q \in SeqsUpTo(1..Len(Hits), n) : \A i \in 1..Len(q) - 1 : q[i] < q[i + 1] }

HitsAt(q) == [i \in 1..Len(q) |-> Hits[q[i]]]

\* the responses of one literature query; None: no data after the retries
QueryResponses == {Failed} \cup { Ok(HitsAt(q)) : q \in SubLists(MaxHits) }

\* the responses to the query "refersto any of the sampled ref_ids": every
\* record in it cites one of ref_ids
CitingResponses(ref_ids) ==
    { r \in QueryResponses :
        \A i \in 1..Len(r.hits) : r.hits[i].refs \cap { ref_ids[k] : k \in 1..Len(ref_ids) } # {} }

\* the responses of the title queries of search_papers_by_topic, concatenated
\* (the same record can be hit by several queries)
TopicResponses == {Failed} \cup { Ok(HitsAt(q)) : q \in SeqsUpTo(1..Len(Hits), MaxHits) }

\* The target's reference list as get_paper_references_by_topic classifies it.
RefResponses ==
    { [ok |-> FALSE, topic |-> <<>>, method |-> <<>>],
      [ok |-> TRUE, topic |-> <<1, 2>>, method |-> <<>>],
      [ok |-> TRUE, topic |-> <<1, 2>>, method |-> <<3, 4, 5, 6, 7, 8, 9, 10>>],
      [ok |-> TRUE, topic |-> <<>>, method |-> <<1, 2, 3, 4, 5, 6, 7, 8, 9, 10, 11>>] }

\* The author records and recent papers upstream holds, per author name.
\* A profile carries the rank of the current position and the year of the
\* earliest position.
Profile(rank, year) == [found |-> TRUE, rank |-> rank, first_paper_year |-> year]
\* no hit, or no data after the retries
NoProfile == [found |-> FALSE, rank |-> None, first_paper_year |-> NoYear]

RecentPaper(authors, n, year) ==
    [authors |-> authors, num_authors |-> n, year |-> year, has_arxiv |-> TRUE]

AuthorWorlds == {"conflicts", "skips", "eligible"}

AuthorDirectory(w, name) ==
    CASE w = "conflicts" ->
           ( CASE name = "Jane Smith" -> Profile("POSTDOC", NoYear)
               [] name = "Ann Lee" -> Profile(None, CurrentYear - 6)
               [] name = "Bob Ray" -> Profile("SENIOR", CurrentYear - 3)
               [] name = "John Smith" -> Profile(None, CurrentYear - 20)
               [] OTHER -> NoProfile )
      [] w = "skips" ->
           ( CASE name = "Jane Smith" -> NoProfile
               [] name = "Ann Lee" -> Profile(None, CurrentYear - 3)
               [] name = "Bob Ray" -> Profile(None, NoYear)
               [] name = "John Smith" -> Profile("VISITOR", CurrentYear - 1)
               [] OTHER -> NoProfile )
      [] OTHER ->
           ( CASE name = "Jane Smith" -> Profile(None, CurrentYear - 5)
               [] name = "Ann Lee" -> Profile("JUNIOR", NoYear)
               [] name = "Bob Ray" -> Profile(None, CurrentYear - 11)
               [] name = "John Smith" -> Profile("POSTDOC", CurrentYear - 40)
               [] OTHER -> Profile("STAFF", NoYear) )

RecentPapersDirectory(w, name) ==
    CASE w = "conflicts" ->
           ( CASE name = "Jane Smith" ->
                    Ok(<<RecentPaper(<<"Smith, Jane", "Witten, E.">>, 2, CurrentYear - 1)>>)
               [] name = "Ann Lee" ->
                    Ok(<<RecentPaper(<<"Ann Lee", "Witten, Edward">>, 2, CurrentYear)>>)
               [] name = "John Smith" ->
                    Ok(<<RecentPaper(<<"John Smith", "Bob Ray">>, 12, CurrentYear),
                      RecentPaper(<<"Edward Witten", "John Smith">>, 2, CurrentYear - 2)>>)
               [] OTHER -> Failed )
      [] w = "skips" -> Ok(<<>>)
      [] OTHER ->
           ( CASE name = "Jane Smith" ->
                    Ok(<<RecentPaper(<<"Jane Smith", "Ann Lee">>, 2, CurrentYear - 1),
                      RecentPaper(<<"Jane Smith">>, 1, CurrentYear - 1)>>)
               [] name = "Ann Lee" ->
                    Ok(<<[authors |-> <<"Ann Lee", "Edward Witten">>, num_authors |-> 2,
                       year |-> CurrentYear, has_arxiv |-> FALSE]>>)
               [] name = "John Smith" -> Failed
               [] OTHER -> Ok(<<>>) )

(***************************************************************************)
(* The Citation Graph Adapter's operations, as functions of the response.  *)
(***************************************************************************)
\* names_match on every pair of upstream names, and _normalize_name of every
\* upstream name, evaluated once
UpstreamNames ==
    { "Edward Witten", "Witten, Edward", "Witten, E.", "Jane Smith", "Smith, Jane",
      "John Smith", "Ann Lee", "Bob Ray", "",
      "Cy Doe", "Di Fox", "Ed Gil", "Flo Orr", "Gus Pym", "Hal Roe",
      "Ida Sol", "Jo Tan", "Kit Ure", "Lu Vos", "Mo Wu" }

NamesMatchTable ==
    [a \in UpstreamNames |-> [b \in UpstreamNames |->
        IF names_match_raises(Spelling(a), Spelling(b)) THEN "IndexError"
        ELSE IF names_match(Spelling(a), Spelling(b)) THEN "True"
        ELSE "False"]]

NormalizeNameTable == [a \in UpstreamNames |-> _normalize_name(Spelling(a))]

\* a plausible slip: only the first author of the target paper is compared
_is_paper_author_FirstOnly(candidate, paper_authors) ==
    IF paper_authors = <<>> THEN "False"
    ELSE NamesMatchTable[candidate][Head(paper_authors)]

\* RefereeFinder._is_paper_author: "True", "False", or "IndexError" when
\* names_match raises before a match is found
RECURSIVE _is_paper_author(_, _)
_is_paper_author(candidate, paper_authors) ==
    IF paper_authors = <<>> THEN "False"
    ELSE IF NamesMatchTable[candidate][Head(paper_authors)] # "False"
         THEN NamesMatchTable[candidate][Head(paper_authors)]
    ELSE _is_paper_author(candidate, Tail(paper_authors))

SeqToSet(q) == {q[i] : i \in 1..Len(q)}

Min(a, b) == IF a <= b THEN a ELSE b

Max(a, b) == IF a >= b THEN a ELSE b

Take(q, n) == SubSeq(q, 1, Min(n, Len(q)))

\* list(dict.fromkeys(q)): the first occurrence of every element, in order
RECURSIVE Dedup(_)
Dedup(q) ==
    IF q = <<>> THEN <<>>
    ELSE LET front == Dedup(SubSeq(q, 1, Len(q) - 1))
             last == q[Len(q)]
         IN  IF last \in SeqToSet(front) THEN front ELSE Append(front, last)

\* a plausible slip: the keywords combined without removing the duplicates
_extract_topic_keywords_NoDedup(p, niche_only) ==
    IF niche_only
    THEN IF p.niche # <<>> THEN Take(p.niche, 8) ELSE Take(p.broad, 4)
    ELSE Take(p.niche \o p.broad \o p.method, 8)

\* RefereeFinder._extract_topic_keywords, from the keywords its patterns found
_extract_topic_keywords(p, niche_only) ==
    IF niche_only
    THEN LET keywords == Dedup(p.niche)
         IN  IF keywords # <<>> THEN Take(keywords, 8) ELSE Take(p.broad, 4)
    ELSE Take(Dedup(p.niche \o p.broad \o p.method), 8)

\* log10(avg + 1) * 100 for the averages the modelled responses produce
Log10x100(x) ==
    CASE x = 10 -> 100 [] x = 100 -> 200 [] x = 1000 -> 300 [] x = 10000 -> 400

\* what the target's record and its sampled references answer to
\* calculate_mainstream_index: citation_counts holds the citation count of
\* every sampled reference whose record could be fetched
MainstreamResponses ==
    { [found |-> FALSE, num_references |-> 0, linked |-> 0, citation_counts |-> <<>>],
      [found |-> TRUE, num_references |-> 0, linked |-> 0, citation_counts |-> <<>>],
      [found |-> TRUE, num_references |-> 3, linked |-> 0, citation_counts |-> <<>>],
      [found |-> TRUE, num_references |-> 3, linked |-> 2, citation_counts |-> <<>>],
      [found |-> TRUE, num_references |-> 12, linked |-> 11, citation_counts |-> <<9, 9>>],
      [found |-> TRUE, num_references |-> 3, linked |-> 3, citation_counts |-> <<0, 0, 0>>] }

RECURSIVE Sum(_)
Sum(q) == IF q = <<>> THEN 0 ELSE Head(q) + Sum(Tail(q))

\* a plausible slip: the citation score without its cap of 1.0
calculate_mainstream_index_Uncapped(r) ==
    IF ~r.found \/ r.num_references = 0 \/ r.linked = 0 \/ r.citation_counts = <<>>
    THEN 50
    ELSE LET total == Sum(r.citation_counts)
             n == Len(r.citation_counts)
             citation_score ==
                 IF total > 0 THEN Log10x100((total + n) \div n) ELSE 30
             ref_count_score == Min(r.num_references, 90)
             index == 7 * citation_score + 9 * ref_count_score
         IN  (2 * index + 30) \div 60

\* InspireClient.calculate_mainstream_index: the index in hundredths
calculate_mainstream_index(r) ==
    IF ~r.found \/ r.num_references = 0 \/ r.linked = 0 \/ r.citation_counts = <<>>
    THEN 50
    ELSE LET total == Sum(r.citation_counts)
             n == Len(r.citation_counts)
             \* citation_score * 300
             citation_score ==
                 IF total > 0 THEN Min(Log10x100((total + n) \div n), 300) ELSE 30
             \* ref_count_score * 100
             ref_count_score == Min(r.num_references, 90)
             \* (0.7 * citation_score + 0.3 * ref_count_score) * 3000
             index == 7 * citation_score + 9 * ref_count_score
         IN  (2 * index + 30) \div 60

\* ... and the "error" entry of its details map, None when it has none
mainstream_details(r) ==
    [error |-> IF ~r.found THEN "Paper not found"
               ELSE IF r.num_references = 0 THEN "No references found"
               ELSE IF r.linked = 0 THEN "No linked references"
               ELSE IF r.citation_counts = <<>> THEN "Could not fetch reference data"
               ELSE None,
     num_references |-> IF r.found /\ r.linked > 0 /\ r.citation_counts # <<>>
                        THEN r.num_references ELSE 0,
     \* round(citation_score, 2), in hundredths
     citation_score |->
         IF ~r.found \/ r.num_references = 0 \/ r.linked = 0 \/ r.citation_counts = <<>>
         THEN 0
         ELSE LET total == Sum(r.citation_counts)
                  n == Len(r.citation_counts)
                  score300 == IF total > 0 THEN Min(Log10x100((total + n) \div n), 300)
                              ELSE 30
              IN  (2 * score300 + 3) \div 6]

\* metadata.get("authors", [])[:10]
AuthorsKept == 10

\* one record of get_papers_citing_refs
CitingRecord(h, ref_ids) ==
    [arxiv_id |-> h.arxiv_id, authors |-> Take(h.authors, AuthorsKept),
     num_authors |-> h.num_authors,
     shared_refs |-> Cardinality(SeqToSet(ref_ids) \cap h.refs), topic_match |-> FALSE]

\* InspireClient.get_papers_citing_refs
get_papers_citing_refs(ref_ids, r) ==
    IF ref_ids = <<>> \/ ~r.ok THEN <<>>
    ELSE LET kept == SelectSeq(r.hits, LAMBDA h : h.in_window /\ h.has_arxiv)
         IN  [i \in 1..Len(kept) |-> CitingRecord(kept[i], ref_ids)]

\* one record of search_papers_by_topic
TopicRecord(h) ==
    [arxiv_id |-> h.arxiv_id, authors |-> Take(h.authors, AuthorsKept),
     num_authors |-> h.num_authors,
     shared_refs |-> 0, topic_match |-> TRUE]

RECURSIVE TopicPapers(_, _, _)
TopicPapers(hits, seen_arxiv, papers) ==
    IF hits = <<>> THEN papers
    ELSE LET h == Head(hits)
         IN  IF ~h.has_arxiv \/ h.arxiv_id \in seen_arxiv \/ ~h.in_window
             THEN TopicPapers(Tail(hits), seen_arxiv, papers)
             ELSE TopicPapers(Tail(hits), seen_arxiv \cup {h.arxiv_id},
                              Append(papers, TopicRecord(h)))

\* InspireClient.search_papers_by_topic (its queries' responses concatenated)
search_papers_by_topic(r, max_results) ==
    IF ~r.ok THEN <<>> ELSE Take(TopicPapers(r.hits, {}, <<>>), max_results)

\* InspireClient.get_author_info
get_author_info(name, r) ==
    [name |-> name, first_paper_year |-> r.first_paper_year,
     _rank_stage |-> RANK_MAP(r.rank), small_collab_papers_by_year |-> {}]

\* InspireClient.get_author_papers_with_counts: the papers with an arXiv identifier
get_author_papers(r) ==
    IF ~r.ok THEN <<>> ELSE SelectSeq(r.hits, LAMBDA p : p.has_arxiv)

\* ... and its year -> count of papers with fewer than 10 authors, as pairs
small_collab_by_year(r) ==
    LET papers == get_author_papers(r)
        count(y) == Cardinality({i \in 1..Len(papers) :
                                   papers[i].year = y /\ papers[i].num_authors < 10})
    IN  { <<papers[i].year, count(papers[i].year)>> :
            i \in {j \in 1..Len(papers) : papers[j].num_authors < 10} }

\* InspireClient.get_collaborators
get_collaborators(author_name, r) ==
    LET papers == get_author_papers(r)
    IN  UNION { { papers[i].authors[k] : k \in
                    { k \in 1..Len(papers[i].authors) :
                        NormalizeNameTable[papers[i].authors[k]]
                          # NormalizeNameTable[author_name] } }
                : i \in 1..Len(papers) }

\* a plausible slip: no data about the recent papers taken for a conflict
check_collaboration_FailsClosed(author_name, paper_authors, r) ==
    LET collab_normalized ==
            { NormalizeNameTable[c] : c \in get_collaborators(author_name, r) }
        paper_normalized == { NormalizeNameTable[a] : a \in SeqToSet(paper_authors) }
    IN  get_author_papers(r) = <<>> \/ collab_normalized \cap paper_normalized # {}

\* InspireClient.check_collaboration
check_collaboration(author_name, paper_authors, r) ==
    LET collab_normalized ==
            { NormalizeNameTable[c] : c \in get_collaborators(author_name, r) }
        paper_normalized == { NormalizeNameTable[a] : a \in SeqToSet(paper_authors) }
    IN  collab_normalized \cap paper_normalized # {}

(***************************************************************************)
(* RefereeFinder.find_referees                                             *)
(***************************************************************************)
\* topic_weight and citation_weight, in tenths
WeightPairs == { <<10, 10>>, <<0, 20>> }

\* len(co_citing_papers) < 100
CoCitingLimit == 100
\* max_results of search_papers_by_topic
TopicMaxResults == 100
\* cp["num_authors"] > 15
MaxAuthors == 15
\* min(len(all_refs), 10)
MaxPossibleRefs == 10

Reasons ==
    { "not_found_inspire", "unknown_career", "career_graduate student",
      "career_senior", "conflict" }

NoPaper == [arxiv_id |-> None, authors |-> <<>>, niche |-> <<>>, broad |-> <<>>, method |-> <<>>]

FinderLocals ==
    /\ error = None
    /\ paper = NoPaper
    /\ topic_keywords = <<>>
    /\ target_mainstream = 0
    /\ topic_refs = <<>>
    /\ method_refs = <<>>
    /\ co_citing_papers = <<>>
    /\ topic_papers = <<>>
    /\ all_papers = <<>>
    /\ cp_i = 1
    /\ seen_papers = {}
    /\ author_data = <<>>
    /\ sorted_authors = <<>>
    /\ ev_i = 1
    /\ candidates = <<>>
    /\ evaluated = 0
    /\ skipped_reasons = [r \in Reasons |-> 0]
    /\ result = <<>>
    /\ inspire_log = <<>>

FinderIdle ==
    /\ pc = "idle"
    /\ args = [num_candidates |-> 0, niche_only |-> FALSE, topic_weight |-> 10,
               citation_weight |-> 10]
    /\ world = "eligible"
    /\ FinderLocals

FinderInit ==
    /\ pc = "fetch"
    /\ args \in { [num_candidates |-> n, niche_only |-> b, topic_weight |-> w[1],
                   citation_weight |-> w[2]] :
                    n \in 0..MaxNum, b \in BOOLEAN, w \in WeightPairs }
    /\ world \in AuthorWorlds
    /\ FinderLocals

\* a plausible slip: the missing paper is not checked for
FetchPaper_NoRaise ==
    /\ pc = "fetch"
    /\ \E r \in {NoPaper} \cup TargetPapers : paper' = r
    /\ pc' = "keywords"
    /\ UNCHANGED <<normVars, pureVars>>
    /\ UNCHANGED <<args, world, error, topic_keywords, target_mainstream, topic_refs,
                   method_refs, co_citing_papers, topic_papers, all_papers, cp_i,
                   seen_papers, author_data, sorted_authors, ev_i, candidates,
                   evaluated, skipped_reasons, result, inspire_log>>

\* lines 153-157: fetch the target paper, raise when it cannot be fetched
FetchPaper ==
    /\ pc = "fetch"
    /\ \E r \in {NoPaper} \cup TargetPapers :
         IF r = NoPaper
         THEN /\ pc' = "raised"
              /\ error' = "ValueError"
              /\ UNCHANGED paper
         ELSE /\ pc' = "keywords"
              /\ paper' = r
              /\ UNCHANGED error
    /\ UNCHANGED <<normVars, pureVars>>
    /\ UNCHANGED <<args, world, topic_keywords, target_mainstream, topic_refs,
                   method_refs, co_citing_papers, topic_papers, all_papers, cp_i,
                   seen_papers, author_data, sorted_authors, ev_i, candidates,
                   evaluated, skipped_reasons, result, inspire_log>>

\* a plausible slip: the unresolved mainstream query escalated as an error
ExtractAndMainstream_Escalates ==
    /\ pc = "keywords"
    /\ topic_keywords' = _extract_topic_keywords(paper, args.niche_only)
    /\ \E r \in MainstreamResponses :
         IF r.found
         THEN /\ target_mainstream' = calculate_mainstream_index(r)
              /\ pc' = "refs"
              /\ UNCHANGED error
         ELSE /\ pc' = "raised"
              /\ error' = "ValueError"
              /\ UNCHANGED target_mainstream
    /\ inspire_log' = Append(inspire_log, <<"calculate_mainstream_index">>)
    /\ UNCHANGED <<normVars, pureVars>>
    /\ UNCHANGED <<args, world, paper, topic_refs, method_refs,
                   co_citing_papers, topic_papers, all_papers, cp_i, seen_papers,
                   author_data, sorted_authors, ev_i, candidates, evaluated,
                   skipped_reasons, result>>

\* lines 163-171: topic keywords, then the target's mainstream index
ExtractAndMainstream ==
    /\ pc = "keywords"
    /\ topic_keywords' = _extract_topic_keywords(paper, args.niche_only)
    /\ \E r \in MainstreamResponses : target_mainstream' = calculate_mainstream_index(r)
    /\ inspire_log' = Append(inspire_log, <<"calculate_mainstream_index">>)
    /\ pc' = "refs"
    /\ UNCHANGED <<normVars, pureVars>>
    /\ UNCHANGED <<args, world, error, paper, topic_refs, method_refs,
                   co_citing_papers, topic_papers, all_papers, cp_i, seen_papers,
                   author_data, sorted_authors, ev_i, candidates, evaluated,
                   skipped_reasons, result>>

\* lines 173-177: the target's references, classified
GetReferences ==
    /\ pc = "refs"
    /\ \E r \in RefResponses :
         /\ topic_refs' = r.topic
         /\ method_refs' = r.method
    /\ inspire_log' = Append(inspire_log, <<"get_paper_references_by_topic">>)
    /\ pc' = "topic_citing"
    /\ UNCHANGED <<normVars, pureVars>>
    /\ UNCHANGED <<args, world, error, paper, topic_keywords, target_mainstream,
                   co_citing_papers, topic_papers, all_papers, cp_i, seen_papers,
                   author_data, sorted_authors, ev_i, candidates, evaluated,
                   skipped_reasons, result>>

\* p["shared_refs"] = p.get("shared_refs", 0) * 2
Doubled(papers) ==
    [i \in 1..Len(papers) |-> [papers[i] EXCEPT !.shared_refs = @ * 2]]

\* a plausible slip: the topic-reference records keep their single weight
TopicCiting_SingleWeight ==
    /\ pc = "topic_citing"
    /\ IF topic_refs # <<>>
       THEN /\ \E r \in CitingResponses(topic_refs) :
                 co_citing_papers' = get_papers_citing_refs(topic_refs, r)
            /\ inspire_log' = Append(inspire_log, <<"get_papers_citing_refs">>)
       ELSE UNCHANGED <<co_citing_papers, inspire_log>>
    /\ pc' = "method_citing"
    /\ UNCHANGED <<normVars, pureVars>>
    /\ UNCHANGED <<args, world, error, paper, topic_keywords, target_mainstream,
                   topic_refs, method_refs, topic_papers, all_papers, cp_i,
                   seen_papers, author_data, sorted_authors, ev_i, candidates,
                   evaluated, skipped_reasons, result>>

\* lines 179-197: the papers citing the topic references, at double weight
TopicCiting ==
    /\ pc = "topic_citing"
    /\ IF topic_refs # <<>>
       THEN /\ \E r \in CitingResponses(topic_refs) :
                 co_citing_papers' = Doubled(get_papers_citing_refs(topic_refs, r))
            /\ inspire_log' = Append(inspire_log, <<"get_papers_citing_refs">>)
       ELSE UNCHANGED <<co_citing_papers, inspire_log>>
    /\ pc' = "method_citing"
    /\ UNCHANGED <<normVars, pureVars>>
    /\ UNCHANGED <<args, world, error, paper, topic_keywords, target_mainstream,
                   topic_refs, method_refs, topic_papers, all_papers, cp_i,
                   seen_papers, author_data, sorted_authors, ev_i, candidates,
                   evaluated, skipped_reasons, result>>

\* lines 199-210: the papers citing the method references
MethodCiting ==
    /\ pc = "method_citing"
    /\ IF method_refs # <<>> /\ Len(co_citing_papers) < CoCitingLimit
       THEN /\ \E r \in CitingResponses(method_refs) :
                 co_citing_papers' = co_citing_papers \o get_papers_citing_refs(method_refs, r)
            /\ inspire_log' = Append(inspire_log, <<"get_papers_citing_refs">>)
       ELSE UNCHANGED <<co_citing_papers, inspire_log>>
    /\ pc' = "topic_search"
    /\ UNCHANGED <<normVars, pureVars>>
    /\ UNCHANGED <<args, world, error, paper, topic_keywords, target_mainstream,
                   topic_refs, method_refs, topic_papers, all_papers, cp_i,
                   seen_papers, author_data, sorted_authors, ev_i, candidates,
                   evaluated, skipped_reasons, result>>

\* a plausible slip: the sources combined with the topic-search papers first
TopicSearch_TopicFirst ==
    /\ pc = "topic_search"
    /\ IF topic_keywords # <<>>
       THEN /\ \E r \in TopicResponses :
                 topic_papers' = search_papers_by_topic(r, TopicMaxResults)
            /\ inspire_log' = Append(inspire_log, <<"search_papers_by_topic">>)
       ELSE UNCHANGED <<topic_papers, inspire_log>>
    /\ all_papers' = topic_papers' \o co_citing_papers
    /\ pc' = "collect"
    /\ UNCHANGED <<normVars, pureVars>>
    /\ UNCHANGED <<args, world, error, paper, topic_keywords, target_mainstream,
                   topic_refs, method_refs, co_citing_papers, cp_i, seen_papers,
                   author_data, sorted_authors, ev_i, candidates, evaluated,
                   skipped_reasons, result>>

\* lines 212-226: the papers found by topic keyword, and both sources combined
TopicSearch ==
    /\ pc = "topic_search"
    /\ IF topic_keywords # <<>>
       THEN /\ \E r \in TopicResponses :
                 topic_papers' = search_papers_by_topic(r, TopicMaxResults)
            /\ inspire_log' = Append(inspire_log, <<"search_papers_by_topic">>)
       ELSE UNCHANGED <<topic_papers, inspire_log>>
    /\ all_papers' = co_citing_papers \o topic_papers'
    /\ pc' = "collect"
    /\ UNCHANGED <<normVars, pureVars>>
    /\ UNCHANGED <<args, world, error, paper, topic_keywords, target_mainstream,
                   topic_refs, method_refs, co_citing_papers, cp_i, seen_papers,
                   author_data, sorted_authors, ev_i, candidates, evaluated,
                   skipped_reasons, result>>

NewEntry(name) ==
    [name |-> name, papers |-> <<>>, shared_refs_total |-> 0, max_shared_refs |-> 0,
     topic_match_count |-> 0]

\* lines 253-280: the paper cp accumulated under author_name
Accumulate(data, author_name, cp) ==
    LET d0 == IF \E i \in 1..Len(data) : data[i].name = author_name
              THEN data
              ELSE Append(data, NewEntry(author_name))
        i == CHOOSE k \in 1..Len(d0) : d0[k].name = author_name
    IN  [d0 EXCEPT ![i] =
           [@ EXCEPT !.papers = Append(@, cp.arxiv_id),
                     !.shared_refs_total = @ + cp.shared_refs,
                     !.max_shared_refs = Max(@, cp.shared_refs),
                     !.topic_match_count = IF cp.topic_match THEN @ + 1 ELSE @]]

\* lines 248-280: the loop over cp["authors"]; raised when names_match raises
RECURSIVE CollectAuthors(_, _, _, _)
CollectAuthors(authors, cp, paper_authors, data) ==
    IF authors = <<>> THEN [data |-> data, raised |-> FALSE]
    ELSE LET on_paper == _is_paper_author(Head(authors), paper_authors)
         IN  IF on_paper = "IndexError" THEN [data |-> data, raised |-> TRUE]
             ELSE IF on_paper = "True"
                  THEN CollectAuthors(Tail(authors), cp, paper_authors, data)
                  ELSE CollectAuthors(Tail(authors), cp, paper_authors,
                                      Accumulate(data, Head(authors), cp))

\* a plausible slip: the papers already seen are not skipped
CollectPaper_NoSeen ==
    /\ pc = "collect"
    /\ cp_i <= Len(all_papers)
    /\ LET cp == all_papers[cp_i]
       IN  IF cp.num_authors > MaxAuthors
           THEN /\ cp_i' = cp_i + 1
                /\ UNCHANGED <<pc, error, seen_papers, author_data>>
           ELSE LET r == CollectAuthors(cp.authors, cp, paper.authors, author_data)
                IN  /\ seen_papers' = seen_papers \cup {cp.arxiv_id}
                    /\ author_data' = r.data
                    /\ IF r.raised
                       THEN /\ pc' = "raised"
                            /\ error' = "IndexError"
                            /\ UNCHANGED cp_i
                       ELSE /\ cp_i' = cp_i + 1
                            /\ UNCHANGED <<pc, error>>
    /\ UNCHANGED <<normVars, pureVars>>
    /\ UNCHANGED <<args, world, paper, topic_keywords, target_mainstream, topic_refs,
                   method_refs, co_citing_papers, topic_papers, all_papers,
                   sorted_authors, ev_i, candidates, evaluated, skipped_reasons,
                   result, inspire_log>>

\* lines 238-280: one iteration of the loop over all_papers
CollectPaper ==
    /\ pc = "collect"
    /\ cp_i <= Len(all_papers)
    /\ LET cp == all_papers[cp_i]
       IN  IF cp.num_authors > MaxAuthors \/ cp.arxiv_id \in seen_papers
           THEN /\ cp_i' = cp_i + 1
                /\ UNCHANGED <<pc, error, seen_papers, author_data>>
           ELSE LET r == CollectAuthors(cp.authors, cp, paper.authors, author_data)
                IN  /\ seen_papers' = seen_papers \cup {cp.arxiv_id}
                    /\ author_data' = r.data
                    /\ IF r.raised
                       THEN /\ pc' = "raised"
                            /\ error' = "IndexError"
                            /\ UNCHANGED cp_i
                       ELSE /\ cp_i' = cp_i + 1
                            /\ UNCHANGED <<pc, error>>
    /\ UNCHANGED <<normVars, pureVars>>
    /\ UNCHANGED <<args, world, paper, topic_keywords, target_mainstream, topic_refs,
                   method_refs, co_citing_papers, topic_papers, all_papers,
                   sorted_authors, ev_i, candidates, evaluated, skipped_reasons,
                   result, inspire_log>>

\* sorted(q, key, reverse=True): stable, Gt(a, b) iff key(a) > key(b)
SortedDesc(q, Gt(_, _)) ==
    LET rank(i) == 1 + Cardinality({ j \in 1..Len(q) :
                        Gt(q[j], q[i]) \/ (~Gt(q[i], q[j]) /\ j < i) })
    IN  [k \in 1..Len(q) |-> q[CHOOSE i \in 1..Len(q) : rank(i) = k]]

\* lines 293-309: the ranking key, in thousandths
RankingKey(d, a, mainstream) ==
    IF a.niche_only
    THEN d.topic_match_count * a.topic_weight * 300
         + d.shared_refs_total * a.citation_weight * 10
         + Len(d.papers) * 100
    ELSE d.topic_match_count * a.topic_weight * (200 - mainstream)
         + d.shared_refs_total * a.citation_weight * 50
         + Len(d.papers) * 100

\* a plausible slip: reverse=True left out
SortAuthors_Ascending ==
    /\ pc = "collect"
    /\ cp_i > Len(all_papers)
    /\ sorted_authors' =
         SortedDesc(author_data,
                    LAMBDA x, y : RankingKey(x, args, target_mainstream)
                                  < RankingKey(y, args, target_mainstream))
    /\ pc' = "evaluate"
    /\ UNCHANGED <<normVars, pureVars>>
    /\ UNCHANGED <<args, world, error, paper, topic_keywords, target_mainstream,
                   topic_refs, method_refs, co_citing_papers, topic_papers, all_papers,
                   cp_i, seen_papers, author_data, ev_i, candidates, evaluated,
                   skipped_reasons, result, inspire_log>>

\* lines 282-311: the loop is over; the authors sorted for evaluation
SortAuthors ==
    /\ pc = "collect"
    /\ cp_i > Len(all_papers)
    /\ sorted_authors' =
         SortedDesc(author_data,
                    LAMBDA x, y : RankingKey(x, args, target_mainstream)
                                  > RankingKey(y, args, target_mainstream))
    /\ pc' = "evaluate"
    /\ UNCHANGED <<normVars, pureVars>>
    /\ UNCHANGED <<args, world, error, paper, topic_keywords, target_mainstream,
                   topic_refs, method_refs, co_citing_papers, topic_papers, all_papers,
                   cp_i, seen_papers, author_data, ev_i, candidates, evaluated,
                   skipped_reasons, result, inspire_log>>

\* a plausible slip: the sum of the three terms returned as it is
Relevance_Unclamped(d, all_refs) ==
    LET max_possible_refs == Min(Len(all_refs), MaxPossibleRefs)
        ref_den == Max(max_possible_refs * Len(d.papers), 1)
        topic_bonus == Min(d.topic_match_count * 2, 4)
        paper_count_bonus == Min(Len(d.papers) * 1, 2)
    IN  [num |-> 10 * d.shared_refs_total + (topic_bonus + paper_count_bonus) * ref_den,
         den |-> 10 * ref_den]

\* lines 357-361: the final relevance, an exact fraction
Relevance(d, all_refs) ==
    LET max_possible_refs == Min(Len(all_refs), MaxPossibleRefs)
        ref_den == Max(max_possible_refs * Len(d.papers), 1)
        \* tenths
        topic_bonus == Min(d.topic_match_count * 2, 4)
        paper_count_bonus == Min(Len(d.papers) * 1, 2)
        num == 10 * d.shared_refs_total + (topic_bonus + paper_count_bonus) * ref_den
        den == 10 * ref_den
    IN  [num |-> Min(num, den), den |-> den]

RelGt(x, y) == x.num * y.den > y.num * x.den

\* a plausible slip: every ineligible stage tallied under one reason
StageSkip_Untagged(profile, author_info) ==
    IF ~profile.found THEN "not_found_inspire"
    ELSE IF career_stage(author_info) = None THEN "unknown_career"
    ELSE IF career_stage(author_info) \notin {"Postdoc", "Junior Faculty", "Mid-Career"}
         THEN "career_senior"
    ELSE None

\* a plausible slip: Senior left in the list of accepted stages
StageSkip_SeniorAllowed(profile, author_info) ==
    IF ~profile.found THEN "not_found_inspire"
    ELSE IF career_stage(author_info) = None THEN "unknown_career"
    ELSE IF career_stage(author_info) = "Graduate Student" THEN "career_graduate student"
    ELSE None

\* lines 321-334: the skip reason of a profile, None when the stage is eligible
StageSkip(profile, author_info) ==
    IF ~profile.found THEN "not_found_inspire"
    ELSE IF career_stage(author_info) = None THEN "unknown_career"
    ELSE IF career_stage(author_info) \notin {"Postdoc", "Junior Faculty", "Mid-Career"}
         THEN (IF career_stage(author_info) = "Senior" THEN "career_senior"
               ELSE "career_graduate student")
    ELSE None

\* a plausible slip: the loop does not look at the number of survivors
EvaluateCandidate_NoStop ==
    /\ pc = "evaluate"
    /\ ev_i <= Len(sorted_authors)
    /\ LET data == sorted_authors[ev_i]
           author_name == data.name
           profile == AuthorDirectory(world, author_name)
           author_info == get_author_info(author_name, profile)
           stage_skip == StageSkip(profile, author_info)
           recent == RecentPapersDirectory(world, author_name)
           skip(reason, calls) ==
               /\ skipped_reasons' = [skipped_reasons EXCEPT ![reason] = @ + 1]
               /\ inspire_log' = inspire_log \o calls
               /\ UNCHANGED candidates
           info == <<"get_author_info", author_name>>
           collab == <<"check_collaboration", author_name>>
           counts == <<"get_author_papers_with_counts", author_name>>
       IN  IF stage_skip # None THEN skip(stage_skip, <<info>>)
           ELSE IF check_collaboration(author_name, paper.authors, recent)
                THEN skip("conflict", <<info, collab>>)
           ELSE /\ candidates' = Append(candidates,
                    [author |-> [author_info EXCEPT
                                   !.small_collab_papers_by_year = small_collab_by_year(recent)],
                     author_name |-> author_name,
                     relevant_papers |-> data.papers,
                     relevance_score |-> Relevance(data, topic_refs \o method_refs)])
                /\ inspire_log' = inspire_log \o <<info, collab, counts>>
                /\ UNCHANGED skipped_reasons
    /\ evaluated' = evaluated + 1
    /\ ev_i' = ev_i + 1
    /\ UNCHANGED <<normVars, pureVars>>
    /\ UNCHANGED <<args, world, pc, error, paper, topic_keywords, target_mainstream,
                   topic_refs, method_refs, co_citing_papers, topic_papers, all_papers,
                   cp_i, seen_papers, author_data, sorted_authors, result>>

\* lines 313-371: one iteration of the loop over sorted_authors
EvaluateCandidate ==
    /\ pc = "evaluate"
    /\ ev_i <= Len(sorted_authors)
    /\ Len(candidates) < args.num_candidates * 3
    /\ LET data == sorted_authors[ev_i]
           author_name == data.name
           profile == AuthorDirectory(world, author_name)
           author_info == get_author_info(author_name, profile)
           stage_skip == StageSkip(profile, author_info)
           recent == RecentPapersDirectory(world, author_name)
           skip(reason, calls) ==
               /\ skipped_reasons' = [skipped_reasons EXCEPT ![reason] = @ + 1]
               /\ inspire_log' = inspire_log \o calls
               /\ UNCHANGED candidates
           info == <<"get_author_info", author_name>>
           collab == <<"check_collaboration", author_name>>
           counts == <<"get_author_papers_with_counts", author_name>>
       IN  IF stage_skip # None THEN skip(stage_skip, <<info>>)
           ELSE IF check_collaboration(author_name, paper.authors, recent)
                THEN skip("conflict", <<info, collab>>)
           ELSE /\ candidates' = Append(candidates,
                    [author |-> [author_info EXCEPT
                                   !.small_collab_papers_by_year = small_collab_by_year(recent)],
                     author_name |-> author_name,
                     relevant_papers |-> data.papers,
                     relevance_score |-> Relevance(data, topic_refs \o method_refs)])
                /\ inspire_log' = inspire_log \o <<info, collab, counts>>
                /\ UNCHANGED skipped_reasons
    /\ evaluated' = evaluated + 1
    /\ ev_i' = ev_i + 1
    /\ UNCHANGED <<normVars, pureVars>>
    /\ UNCHANGED <<args, world, pc, error, paper, topic_keywords, target_mainstream,
                   topic_refs, method_refs, co_citing_papers, topic_papers, all_papers,
                   cp_i, seen_papers, author_data, sorted_authors, result>>

\* a plausible slip: the survivors returned in evaluation order
SortAndReturn_Unsorted ==
    /\ pc = "evaluate"
    /\ (ev_i > Len(sorted_authors) \/ Len(candidates) >= args.num_candidates * 3)
    /\ result' = Take(candidates, args.num_candidates)
    /\ pc' = "done"
    /\ UNCHANGED <<normVars, pureVars>>
    /\ UNCHANGED <<args, world, error, paper, topic_keywords, target_mainstream,
                   topic_refs, method_refs, co_citing_papers, topic_papers, all_papers,
                   cp_i, seen_papers, author_data, sorted_authors, ev_i, evaluated,
                   skipped_reasons, inspire_log, candidates>>

\* lines 373-380: the loop is over; sort the survivors and return the first ones
SortAndReturn ==
    /\ pc = "evaluate"
    /\ (ev_i > Len(sorted_authors) \/ Len(candidates) >= args.num_candidates * 3)
    /\ candidates' = SortedDesc(candidates,
                                LAMBDA x, y : RelGt(x.relevance_score, y.relevance_score))
    /\ result' = Take(candidates', args.num_candidates)
    /\ pc' = "done"
    /\ UNCHANGED <<normVars, pureVars>>
    /\ UNCHANGED <<args, world, error, paper, topic_keywords, target_mainstream,
                   topic_refs, method_refs, co_citing_papers, topic_papers, all_papers,
                   cp_i, seen_papers, author_data, sorted_authors, ev_i, evaluated,
                   skipped_reasons, inspire_log>>

(***************************************************************************)
(* calculate_relevance_score, the final relevance and is_eligible, each    *)
(* called once on every bounded input.                                     *)
(***************************************************************************)
PureIdle == fn_pc = "idle" /\ fn_in = None /\ fn_out = None

\* a plausible slip: the average plus the bonus returned as it is
calculate_relevance_score_Unclamped(candidate_papers, target_keywords, target_categories) ==
    IF candidate_papers = <<>> THEN [num |-> 0, den |-> 1]
    ELSE LET target_kw_set == {Lower(kw) : kw \in SeqToSet(target_keywords)}
             target_cat_set == SeqToSet(target_categories)
             K == Max(Cardinality(target_kw_set), 1)
             C == Max(Cardinality(target_cat_set), 1)
             paper_score(p) ==
                 LET paper_text == Lower(p.title \o <<" ">> \o p.abstract)
                     kw_matches ==
                         Cardinality({kw \in target_kw_set : Contains(paper_text, kw)})
                     cat_overlap == Cardinality(SeqToSet(p.categories) \cap target_cat_set)
                 IN  7 * kw_matches * C + 3 * cat_overlap * K
             scores == [i \in 1..Len(candidate_papers) |-> paper_score(candidate_papers[i])]
             top_scores == Take(SortedDesc(scores, LAMBDA x, y : x > y), 3)
             n == Len(top_scores)
             quantity_bonus == Min(Len(candidate_papers) * 5, 20)
         IN  [num |-> 100 * Sum(top_scores) + quantity_bonus * n * 10 * K * C,
              den |-> 100 * n * 10 * K * C]

\* calculate_relevance_score, an exact fraction.  A paper's score is kept in
\* units of 1 / (10 * K * C), the quantity bonus in hundredths.
calculate_relevance_score(candidate_papers, target_keywords, target_categories) ==
    IF candidate_papers = <<>> THEN [num |-> 0, den |-> 1]
    ELSE LET target_kw_set == {Lower(kw) : kw \in SeqToSet(target_keywords)}
             target_cat_set == SeqToSet(target_categories)
             K == Max(Cardinality(target_kw_set), 1)
             C == Max(Cardinality(target_cat_set), 1)
             paper_score(p) ==
                 LET paper_text == Lower(p.title \o <<" ">> \o p.abstract)
                     kw_matches ==
                         Cardinality({kw \in target_kw_set : Contains(paper_text, kw)})
                     cat_overlap == Cardinality(SeqToSet(p.categories) \cap target_cat_set)
                 IN  7 * kw_matches * C + 3 * cat_overlap * K
             scores == [i \in 1..Len(candidate_papers) |-> paper_score(candidate_papers[i])]
             top_scores == Take(SortedDesc(scores, LAMBDA x, y : x > y), 3)
             n == Len(top_scores)
             quantity_bonus == Min(Len(candidate_papers) * 5, 20)
             num == 100 * Sum(top_scores) + quantity_bonus * n * 10 * K * C
             den == 100 * n * 10 * K * C
         IN  [num |-> Min(num, den), den |-> den]

\* longest list of candidate papers, longest list of target keywords
MaxScorePapers == 4
MaxKeywords == 2

\* the papers, keywords and category lists the scorer is called on
ScorePapers ==
    { [title |-> <<"D","a","r","k"," ","M","a","t","t","e","r">>, abstract |-> <<"Q","C","D"," ","a","x","i","o","n">>,
       categories |-> <<"hep-ph", "hep-th">>],
      [title |-> <<"L","a","t","t","i","c","e">>, abstract |-> <<"q","c","d">>, categories |-> <<"hep-ph">>],
      [title |-> <<"S","t","r","i","n","g","s">>, abstract |-> <<>>, categories |-> <<>>] }

ScoreKeywords == { <<"d","a","r","k"," ","m","a","t","t","e","r">>, <<"Q","C","D">>, <<"q","c","d">>, <<>> }

ScoreCategoryLists ==
    { <<>>, <<"hep-ph">>, <<"hep-th", "hep-ph">>, <<"hep-ph", "hep-ph">>, <<"math-ph">> }

ScoreInit ==
    /\ fn_pc = "call"
    /\ fn_in \in [candidate_papers : SeqsUpTo(ScorePapers, MaxScorePapers),
                  target_keywords : SeqsUpTo(ScoreKeywords, MaxKeywords),
                  target_categories : ScoreCategoryLists]
    /\ fn_out = None

\* calculate_relevance_score(candidate_papers, target_keywords, target_categories)
CallScore ==
    /\ fn_pc = "call"
    /\ fn_out' = calculate_relevance_score(fn_in.candidate_papers, fn_in.target_keywords,
                                           fn_in.target_categories)
    /\ fn_pc' = "done"
    /\ UNCHANGED <<fn_in, normVars, finderVars>>

\* largest shared-reference total, topic-match count, number of relevant
\* papers and length of the reference list of one pool entry
MaxSharedRefs == 6
MaxTopicMatches == 3
MaxRelPapers == 3
MaxRefs == 11

RelInit ==
    /\ fn_pc = "call"
    /\ fn_in \in { [data |-> [name |-> "Ann Lee", papers |-> [i \in 1..n |-> i],
                              shared_refs_total |-> s, max_shared_refs |-> s,
                              topic_match_count |-> t],
                    all_refs |-> [i \in 1..l |-> i]] :
                     n \in 1..MaxRelPapers, s \in 0..MaxSharedRefs,
                     t \in 0..MaxTopicMatches, l \in 0..MaxRefs }
    /\ fn_out = None

\* lines 357-361 on one entry of the pool
CallRelevance ==
    /\ fn_pc = "call"
    /\ fn_out' = Relevance(fn_in.data, fn_in.all_refs)
    /\ fn_pc' = "done"
    /\ UNCHANGED <<fn_in, normVars, finderVars>>

\* longest career, in years
MaxCareerYears == 21

\* the stages a rank maps to
RankStages == {"Graduate Student", "Postdoc", "Junior Faculty", "Senior", "Mid-Career"}

EligScores == { [num |-> 0, den |-> 1], [num |-> 1, den |-> 2], [num |-> 1, den |-> 1] }

EligPaperLists == { <<>>, <<"p1">>, <<"p1", "p2">> }

EligInit ==
    /\ fn_pc = "call"
    /\ fn_in \in [author : [name : {"Ann Lee"},
                            first_paper_year :
                                {NoYear, 0} \cup {CurrentYear - k : k \in -1..MaxCareerYears},
                            _rank_stage : {None} \cup RankStages,
                            small_collab_papers_by_year : {{}}],
                  author_name : {"Ann Lee"},
                  relevant_papers : EligPaperLists,
                  relevance_score : EligScores]
    /\ fn_out = FALSE

\* candidate.is_eligible
CallIsEligible ==
    /\ fn_pc = "call"
    /\ fn_out' = is_eligible(fn_in)
    /\ fn_pc' = "done"
    /\ UNCHANGED <<fn_in, normVars, finderVars>>

(***************************************************************************)
(* names_match(a, b) and names_match(b, a) on every pair of bounded names. *)
(***************************************************************************)
\* what one call of names_match does: "True", "False" or "IndexError"
NamesMatchOutcome(name1, name2) ==
    IF names_match_raises(name1, name2) THEN "IndexError"
    ELSE IF names_match(name1, name2) THEN "True"
    ELSE "False"

\* most middle initials in a name
MaxMiddle == 1

FirstNames == { <<"E","d","w","a","r","d">>, <<"E",".">>, <<"J","o","h","n">>, <<"J","a","n","e">> }
LastNames == { <<"W","i","t","t","e","n">>, <<"S","m","i","t","h">> }
NameForms == { "First Last", "Last, First", "FIRST  LAST", "Last" }
BlankNames == { <<>>, <<" ">>, <<",">> }

\* str.upper(), to write a name in capitals
Upper(s) ==
    [i \in 1..Len(s) |->
        IF \E k \in 1..26 : LowerChars[k] = s[i]
        THEN UpperChars[CHOOSE k \in 1..26 : LowerChars[k] = s[i]]
        ELSE s[i]]

\* m middle initials, each followed by a blank
RECURSIVE Middles(_)
Middles(m) == IF m = 0 THEN <<>> ELSE <<"J","."," ">> \o Middles(m - 1)

\* how upstream writes the name of a person
Render(d) ==
    CASE d.form = "First Last" -> d.first \o <<" ">> \o Middles(d.middle) \o d.last
      [] d.form = "Last, First" ->
           d.last \o <<","," ">> \o d.first
             \o (IF d.middle = 0 THEN <<>> ELSE <<" ">> \o RStrip(Middles(d.middle)))
      [] d.form = "FIRST  LAST" ->
           <<" ">> \o Upper(d.first) \o <<" "," ">> \o Middles(d.middle) \o Upper(d.last) \o <<" ">>
      [] d.form = "Last" -> d.last
      [] OTHER -> d.blank

PersonNames ==
    { [form |-> f, first |-> a, middle |-> m, last |-> l, blank |-> <<>>] :
        f \in NameForms \ {"Last"}, a \in FirstNames, m \in 0..MaxMiddle, l \in LastNames }
    \cup { [form |-> "Last", first |-> <<>>, middle |-> 0, last |-> l, blank |-> <<>>] :
            l \in LastNames }
    \cup { [form |-> "blank", first |-> <<>>, middle |-> 0, last |-> <<>>, blank |-> b] :
            b \in BlankNames }

NamesInit ==
    /\ fn_pc = "call"
    /\ fn_in \in [a : PersonNames, b : PersonNames]
    /\ fn_out = [ab |-> None, ba |-> None]

\* names_match(a, b)
CallNamesMatch ==
    /\ fn_pc = "call"
    /\ fn_out' = [fn_out EXCEPT !.ab = NamesMatchOutcome(Render(fn_in.a), Render(fn_in.b))]
    /\ fn_pc' = "swapped"
    /\ UNCHANGED <<fn_in, normVars, finderVars>>

\* names_match(b, a)
CallNamesMatchSwapped ==
    /\ fn_pc = "swapped"
    /\ fn_out' = [fn_out EXCEPT !.ba = NamesMatchOutcome(Render(fn_in.b), Render(fn_in.a))]
    /\ fn_pc' = "done"
    /\ UNCHANGED <<fn_in, normVars, finderVars>>

(***************************************************************************)
(* career_stage of the Author that get_author_info builds from a profile.  *)
(***************************************************************************)
\* the ranks a current position can carry: the keys of RANK_MAP, a rank that
\* is not among them, and no rank
Ranks ==
    { "UNDERGRADUATE", "MASTER", "PHD", "POSTDOC", "JUNIOR", "SENIOR", "STAFF",
      "VISITOR", "EMERITUS", None }

StageInit ==
    /\ fn_pc = "call"
    /\ fn_in \in [rank : Ranks,
                  first_paper_year :
                      {NoYear, 0} \cup {CurrentYear - k : k \in -1..MaxCareerYears}]
    /\ fn_out = None

\* get_author_info(name).career_stage
CallCareerStage ==
    /\ fn_pc = "call"
    /\ fn_out' = career_stage(get_author_info("Ann Lee",
                                  Profile(fn_in.rank, fn_in.first_paper_year)))
    /\ fn_pc' = "done"
    /\ UNCHANGED <<fn_in, normVars, finderVars>>

(***************************************************************************)
(* The two places that draw a random sample of references, invoked twice   *)
(* on the same arguments against the same upstream.                        *)
(***************************************************************************)
\* longest list of references
MaxRefIds == 11

\* upstream: the citation count of the i-th reference's record
CitationCountOf(i) == IF i = 11 THEN 909 ELSE 9

\* upstream answers with usable data: the references cited as above, all of
\* them cited 9999 times in a list of over 100, or none of them ever cited
Answers == {"ok", "well_cited", "uncited"}

\* upstream: the literature records, one of them citing the fourth reference only
SamplingHits ==
    Hits \o << [arxiv_id |-> "p7", authors |-> <<"Bob Ray">>, num_authors |-> 1,
                refs |-> {4}, in_window |-> TRUE, has_arxiv |-> TRUE] >>

\* upstream: the answer to the query "refersto any of sample_refs"
RefersTo(sample_refs) ==
    Ok(SelectSeq(SamplingHits, LAMBDA h : h.refs \cap sample_refs # {}))

\* random.sample(population, k), as a set: every k-subset can be drawn
RandomSamples(population, k) == { S \in SUBSET population : Cardinality(S) = k }

\* inspire_client.py 477-489: the references named in the query, given the
\* indices random.sample drew; list(set(indices))[:8] lists small integers
\* in increasing order
sample_refs(n, drawn) ==
    IF n <= 5 THEN 1..n
    ELSE LET indices == {0, 1, n \div 3, (2 * n) \div 3, n - 2, n - 1} \cup drawn
             kept == { i \in indices :
                         i < n /\ Cardinality({ j \in indices : j < i }) < 8 }
         IN  { i + 1 : i \in kept }

\* inspire_client.py 388-425: what the target's record and the records of
\* the sampled references answer
MainstreamRecord(upstream, n, sample) ==
    [found |-> upstream # "not_found",
     num_references |-> IF upstream = "no_references" THEN 0
                        ELSE IF upstream = "well_cited" THEN n + 100
                        ELSE n + 1,
     linked |-> IF upstream = "none_linked" THEN 0 ELSE n,
     citation_counts |->
         IF upstream \notin Answers THEN <<>>
         ELSE LET RECURSIVE Counts(_)
                  Counts(S) ==
                      IF S = {} THEN <<>>
                      ELSE LET i == CHOOSE x \in S : \A y \in S : x <= y
                               c == CASE upstream = "well_cited" -> 9999
                                      [] upstream = "uncited" -> 0
                                      [] OTHER -> CitationCountOf(i)
                           IN  <<c>> \o Counts(S \ {i})
              IN  Counts(sample)]

\* the outcomes of one invocation: the sample drawn and the value returned
Invocation(in) ==
    IF in.site = "mainstream"
    THEN LET samples ==
                 IF in.upstream \in {"not_found", "no_references", "none_linked"} \/ in.n = 0
                 THEN {{}}
                 ELSE RandomSamples(1..in.n, Min(10, in.n))
         IN  { [sample |-> S,
                value |-> calculate_mainstream_index(
                              MainstreamRecord(in.upstream, in.n, S)),
                details |-> mainstream_details(
                                MainstreamRecord(in.upstream, in.n, S))] : S \in samples }
    ELSE LET ref_ids == [i \in 1..in.n |-> i]
             draws == IF in.n <= 5 THEN {{}} ELSE RandomSamples(0..(in.n - 1), Min(4, in.n))
         IN  { [sample |-> IF in.n = 0 THEN {} ELSE sample_refs(in.n, drawn),
                value |-> get_papers_citing_refs(
                              ref_ids,
                              IF in.upstream = "ok" THEN RefersTo(sample_refs(in.n, drawn))
                              ELSE Failed),
                details |-> None] : drawn \in draws }

SamplingInit ==
    /\ fn_pc = "call"
    /\ fn_in \in [site : {"mainstream"},
                  upstream : Answers \cup {"not_found", "no_references", "none_linked",
                                            "no_reference_data"},
                  n : 0..MaxRefIds]
                 \cup [site : {"citing"}, upstream : {"ok", "failed"}, n : 0..MaxRefIds]
    /\ fn_out = [first |-> None, second |-> None]

\* calculate_mainstream_index(arxiv_id), or get_papers_citing_refs(ref_ids)
Invoke ==
    /\ fn_pc = "call"
    /\ \E o \in Invocation(fn_in) : fn_out' = [fn_out EXCEPT !.first = o]
    /\ fn_pc' = "again"
    /\ UNCHANGED <<fn_in, normVars, finderVars>>

\* the same call once more
InvokeAgain ==
    /\ fn_pc = "again"
    /\ \E o \in Invocation(fn_in) : fn_out' = [fn_out EXCEPT !.second = o]
    /\ fn_pc' = "done"
    /\ UNCHANGED <<fn_in, normVars, finderVars>>

(***************************************************************************)
(* InspireClient._get: one request with its retries                        *)
(***************************************************************************)
\* max_retries = 3
max_retries == 3

\* time.sleep(2) between two attempts
RetryWait == 2

\* what requests.get, raise_for_status and json can raise as a
\* requests.RequestException
RequestExceptions == {"ConnectionError", "Timeout", "HTTPError"}

\* the bodies response.json() can return
JsonBodies == {"hits", "metadata"}

Endpoints == {"literature", "authors"}

\* the call is made; nothing has been requested yet
GetInit ==
    /\ fn_pc = "rate_limit"
    /\ fn_in \in [endpoint : Endpoints]
    /\ fn_out = [attempt |-> 0, last_error |-> None, waited |-> 0, requests |-> <<>>,
                 value |-> "pending"]

\* self._rate_limit(), then the loop is entered with attempt = 0
RateLimit ==
    /\ fn_pc = "rate_limit"
    /\ fn_pc' = "request"
    /\ UNCHANGED <<fn_in, fn_out, normVars, finderVars>>

\* a plausible slip: the loop bound off by one
Request_OneMore ==
    /\ fn_pc = "request"
    /\ \E o \in JsonBodies \cup RequestExceptions :
         IF o \in JsonBodies
         THEN /\ fn_out' = [fn_out EXCEPT !.requests = Append(@, o), !.value = o]
              /\ fn_pc' = "returned"
         ELSE /\ fn_out' = [fn_out EXCEPT !.requests = Append(@, o), !.last_error = o]
              /\ fn_pc' = IF fn_out.attempt < max_retries THEN "sleep" ELSE "exhausted"
    /\ UNCHANGED <<fn_in, normVars, finderVars>>

\* lines 42-50: one pass of the loop body up to the return or the except clause
Request ==
    /\ fn_pc = "request"
    /\ \E o \in JsonBodies \cup RequestExceptions :
         IF o \in JsonBodies
         THEN /\ fn_out' = [fn_out EXCEPT !.requests = Append(@, o), !.value = o]
              /\ fn_pc' = "returned"
         ELSE /\ fn_out' = [fn_out EXCEPT !.requests = Append(@, o), !.last_error = o]
              /\ fn_pc' = IF fn_out.attempt < max_retries - 1 THEN "sleep" ELSE "exhausted"
    /\ UNCHANGED <<fn_in, normVars, finderVars>>

\* lines 48-50: time.sleep(2); continue
Backoff ==
    /\ fn_pc = "sleep"
    /\ fn_out' = [fn_out EXCEPT !.waited = @ + RetryWait, !.attempt = @ + 1]
    /\ fn_pc' = "request"
    /\ UNCHANGED <<fn_in, normVars, finderVars>>

\* lines 51-53: the loop is over; return None
ReturnNone ==
    /\ fn_pc = "exhausted"
    /\ fn_out' = [fn_out EXCEPT !.value = None]
    /\ fn_pc' = "returned"
    /\ UNCHANGED <<fn_in, normVars, finderVars>>

(***************************************************************************)
(* RefereeFinder._extract_topic_keywords on the matches of its patterns    *)
(***************************************************************************)
\* the keyword each of topic_patterns gives when it matches, in list order
\* (for a pattern without replacement, one of its joined match groups)
TopicPatternKeywords ==
    << "super-renormalizable gravity", "higher derivative gravity", "nonlocal gravity",
       "modified gravity", "quadratic gravity", "ghost-free gravity",
       "infinite derivative gravity", "f(R) gravity", "dark matter", "inflation",
       "cosmological constant", "higgs boson", "supersymmetry", "beyond standard model" >>

\* ... of broad_topic_patterns
BroadPatternKeywords == << "quantum gravity", "black holes", "Kerr", "Newtonian potential" >>

\* ... of method_patterns
MethodPatternKeywords ==
    << "scattering amplitudes", "on-shell methods", "effective field theory",
       "renormalization group", "loop corrections", "feynman diagrams" >>

\* the patterns of a list that match the text: a run of consecutive patterns
MatchedRuns(keywords) ==
    { SubSeq(keywords, lo, hi) : lo \in 1..(Len(keywords) + 1), hi \in 0..Len(keywords) }

\* what re.search(r'in\s+([^,]+)$', title_lower) finds: nothing, or the
\* subject with its number of words
NoSubject == [text |-> None, words |-> 0]
TitleSubjects ==
    { NoSubject,
      [text |-> "dark matter", words |-> 2],
      [text |-> "black holes", words |-> 2],
      [text |-> "curved spacetime", words |-> 2],
      [text |-> "the early universe at high energies", words |-> 6] }

\* lines 79-113: niche_keywords, the title's subject inserted in front
niche_keywords(matched, subject) ==
    IF subject # NoSubject /\ subject.words <= 4
    THEN <<subject.text>> \o matched
    ELSE matched

KeywordsInit ==
    /\ fn_pc = "call"
    /\ fn_in \in [topic : MatchedRuns(TopicPatternKeywords),
                  broad : {<<>>, BroadPatternKeywords, SubSeq(BroadPatternKeywords, 2, 3)},
                  method : {<<>>, MethodPatternKeywords, SubSeq(MethodPatternKeywords, 1, 2)},
                  subject : TitleSubjects,
                  niche_only : BOOLEAN]
    /\ fn_out = None

\* the paper record the patterns' matches amount to
KeywordSource(in) ==
    [niche |-> niche_keywords(in.topic, in.subject), broad |-> in.broad,
     method |-> in.method]

\* self._extract_topic_keywords(title, abstract, niche_only)
CallExtractKeywords ==
    /\ fn_pc = "call"
    /\ fn_out' = _extract_topic_keywords(KeywordSource(fn_in), fn_in.niche_only)
    /\ fn_pc' = "done"
    /\ UNCHANGED <<fn_in, normVars, finderVars>>

(***************************************************************************)
(* The collection loop of find_referees on pools that hold papers of       *)
(* large collaborations.                                                   *)
(***************************************************************************)
\* most records in one response of this part
MaxPool == 2

\* upstream: the authors of the collaboration papers, as listed
Collaboration ==
    << "Jane Smith", "Ann Lee", "Bob Ray", "John Smith", "Witten, E.", "Cy Doe",
       "Di Fox", "Ed Gil", "Flo Orr", "Gus Pym", "Hal Roe", "Ida Sol", "Jo Tan",
       "Kit Ure", "Lu Vos", "Mo Wu" >>

CollabPaper(id, n, refs) ==
    [arxiv_id |-> id, authors |-> SubSeq(Collaboration, 1, n), num_authors |-> n,
     refs |-> refs, in_window |-> TRUE, has_arxiv |-> TRUE]

\* upstream: two small papers and papers of 11, 15 and 16 authors
CollabHits ==
    << Hits[1], Hits[2], CollabPaper("c11", 11, {1}), CollabPaper("c15", 15, {1, 2}),
       CollabPaper("c16", 16, {2}) >>

\* one query's response: up to MaxPool of these records, most recent first
CollabResponses ==
    {Failed} \cup
    { Ok([i \in 1..Len(q) |-> CollabHits[q[i]]]) :
        q \in { q \in SeqsUpTo(1..Len(CollabHits), MaxPool) :
                  \A i \in 1..(Len(q) - 1) : q[i] < q[i + 1] } }

\* find_referees at line 173: the target is fetched, its keywords extracted
GatherLocals ==
    /\ pc = "gather"
    /\ error = None
    /\ paper \in TargetPapers
    /\ topic_keywords = _extract_topic_keywords(paper, args.niche_only)
    /\ target_mainstream = 50
    /\ topic_refs = <<>>
    /\ method_refs = <<>>
    /\ co_citing_papers = <<>>
    /\ topic_papers = <<>>
    /\ all_papers = <<>>
    /\ cp_i = 1
    /\ seen_papers = {}
    /\ author_data = <<>>
    /\ sorted_authors = <<>>
    /\ ev_i = 1
    /\ candidates = <<>>
    /\ evaluated = 0
    /\ skipped_reasons = [r \in Reasons |-> 0]
    /\ result = <<>>
    /\ inspire_log = <<>>

\* ... in an invocation that asks for no referee
CollectInit ==
    /\ args = [num_candidates |-> 0, niche_only |-> FALSE, topic_weight |-> 10,
               citation_weight |-> 10]
    /\ world = "eligible"
    /\ GatherLocals

\* find_referees at line 179: the target is fetched, its mainstream index
\* computed and two topic references found, with any of the author records
EvaluateInit ==
    /\ args \in { [num_candidates |-> n, niche_only |-> b, topic_weight |-> 10,
                   citation_weight |-> 10] : n \in 0..MaxNum, b \in BOOLEAN }
    /\ world \in AuthorWorlds
    /\ pc = "topic_citing"
    /\ error = None
    /\ paper \in TargetPapers
    /\ topic_keywords = _extract_topic_keywords(paper, args.niche_only)
    /\ target_mainstream = 50
    /\ topic_refs = <<1, 2>>
    /\ method_refs = <<>>
    /\ co_citing_papers = <<>>
    /\ topic_papers = <<>>
    /\ all_papers = <<>>
    /\ cp_i = 1
    /\ seen_papers = {}
    /\ author_data = <<>>
    /\ sorted_authors = <<>>
    /\ ev_i = 1
    /\ candidates = <<>>
    /\ evaluated = 0
    /\ skipped_reasons = [r \in Reasons |-> 0]
    /\ result = <<>>
    /\ inspire_log = << <<"calculate_mainstream_index">>,
                        <<"get_paper_references_by_topic">> >>

\* lines 173-226: the topic references are classified or not, and both pools
\* are gathered and combined
GatherPools ==
    /\ pc = "gather"
    /\ \E refs \in {<<>>, <<1, 2>>}, citing \in CollabResponses, found \in CollabResponses :
         LET co_citing == Doubled(get_papers_citing_refs(refs, citing))
             by_topic == IF topic_keywords # <<>>
                         THEN search_papers_by_topic(found, TopicMaxResults) ELSE <<>>
         IN  /\ topic_refs' = refs
             /\ co_citing_papers' = co_citing
             /\ topic_papers' = by_topic
             /\ all_papers' = co_citing \o by_topic
    /\ pc' = "collect"
    /\ UNCHANGED <<normVars, pureVars>>
    /\ UNCHANGED <<args, world, error, paper, topic_keywords, target_mainstream,
                   method_refs, cp_i, seen_papers, author_data, sorted_authors, ev_i,
                   candidates, evaluated, skipped_reasons, result, inspire_log>>

(***************************************************************************)
(* The queries find_referees issues for its target, called with two        *)
(* spellings of an identifier against the same upstream.                   *)
(***************************************************************************)
\* how a caller can write the identifier of the target
TargetSpellings ==
    { F_id,
      F_id \o F_v2,
      <<" ">> \o F_id \o <<" ">>,
      F_arXiv \o F_id,
      F_ARXIV \o F_id \o F_v2,
      F_abs \o F_id,
      S_https \o F_abs \o F_id,
      S_https \o F_abs \o F_id \o F_v2,
      S_http \o S_www \o F_pdfdir \o F_id \o S_dotpdf }

\* the q parameter of the literature queries: f"arxiv:{arxiv_id}"
LiteratureQuery(arxiv_id) == S_arxiv_colon \o arxiv_id

\* upstream: the query hits the target's record when it names the record's
\* eprint value; whether any other spelling hits is upstream's choice
LiteratureHit(q, lenient) == lenient \/ q = LiteratureQuery(F_id)

\* upstream: the target's record as calculate_mainstream_index reads it
TargetRecord ==
    [found |-> TRUE, num_references |-> 12, linked |-> 11, citation_counts |-> <<9, 9>>]

\* no hit for the query
NotFoundRecord ==
    [found |-> FALSE, num_references |-> 0, linked |-> 0, citation_counts |-> <<>>]

\* referee_finder.py 153-177: the identifier fetch_paper searches for, the
\* two literature queries, and what they give
TargetQueries(arxiv_id, lenient) ==
    LET query == LiteratureQuery(arxiv_id)
        hit == LiteratureHit(query, lenient)
    IN  [id_list |-> normalize_arxiv_id(arxiv_id),
         mainstream_query |-> query,
         references_query |-> query,
         target_mainstream |->
             calculate_mainstream_index(IF hit THEN TargetRecord ELSE NotFoundRecord),
         topic_refs |-> IF hit THEN <<1, 2>> ELSE <<>>,
         method_refs |-> <<>>]

SpellingInit ==
    /\ fn_pc = "call"
    /\ fn_in \in [a : TargetSpellings, b : TargetSpellings, lenient : BOOLEAN]
    /\ fn_out = [a |-> None, b |-> None]

\* find_referees(a)
CallWithSpelling ==
    /\ fn_pc = "call"
    /\ fn_out' = [fn_out EXCEPT !.a = TargetQueries(fn_in.a, fn_in.lenient)]
    /\ fn_pc' = "other"
    /\ UNCHANGED <<fn_in, normVars, finderVars>>

\* find_referees(b)
CallWithOtherSpelling ==
    /\ fn_pc = "other"
    /\ fn_out' = [fn_out EXCEPT !.b = TargetQueries(fn_in.b, fn_in.lenient)]
    /\ fn_pc' = "done"
    /\ UNCHANGED <<fn_in, normVars, finderVars>>

vars == <<normVars, finderVars, pureVars>>

NormNext == Normalize \/ NormalizeAgain

\* normalize_arxiv_id applied once and twice to every bounded input
InitNorm == NormInit /\ FinderIdle /\ PureIdle

SpecNorm == InitNorm /\ [][NormNext]_vars

Next ==
    \/ FetchPaper
    \/ ExtractAndMainstream
    \/ GetReferences
    \/ TopicCiting
    \/ MethodCiting
    \/ TopicSearch
    \/ CollectPaper
    \/ SortAuthors
    \/ EvaluateCandidate
    \/ SortAndReturn

\* one invocation of find_referees
Init == FinderInit /\ NormIdle /\ PureIdle

Spec == Init /\ [][Next]_vars

SpellingNext == CallWithSpelling \/ CallWithOtherSpelling

\* the target's queries for every pair of spellings
InitSpelling == SpellingInit /\ NormIdle /\ FinderIdle

SpecSpelling == InitSpelling /\ [][SpellingNext]_vars

ScoreNext == CallScore

\* calculate_relevance_score on every bounded input
InitScore == ScoreInit /\ NormIdle /\ FinderIdle

SpecScore == InitScore /\ [][ScoreNext]_vars

RelNext == CallRelevance

\* the final relevance of every bounded pool entry
InitRel == RelInit /\ NormIdle /\ FinderIdle

SpecRel == InitRel /\ [][RelNext]_vars

EligNext == CallIsEligible

\* is_eligible of every bounded candidate
InitElig == EligInit /\ NormIdle /\ FinderIdle

SpecElig == InitElig /\ [][EligNext]_vars

NamesNext == CallNamesMatch \/ CallNamesMatchSwapped

\* names_match both ways round on every pair of bounded names
InitNames == NamesInit /\ NormIdle /\ FinderIdle

SpecNames == InitNames /\ [][NamesNext]_vars

\* career_stage for every bounded rank and first_paper_year
InitStage == StageInit /\ NormIdle /\ FinderIdle

SpecStage == InitStage /\ [][CallCareerStage]_vars

SamplingNext == Invoke \/ InvokeAgain

\* the sampling adapter calls, each made twice
InitSampling == SamplingInit /\ NormIdle /\ FinderIdle

SpecSampling == InitSampling /\ [][SamplingNext]_vars

GetNext == RateLimit \/ Request \/ Backoff \/ ReturnNone

\* one call of _get, under every course the requests can take
InitGet == GetInit /\ NormIdle /\ FinderIdle

\* the interpreter runs the call on: no step of it is postponed forever
SpecGet == InitGet /\ [][GetNext]_vars /\ WF_vars(GetNext)

CollectNext == GatherPools \/ CollectPaper \/ SortAuthors

\* the collection loop on every modelled pool
InitCollect == CollectInit /\ NormIdle /\ PureIdle

SpecCollect == InitCollect /\ [][CollectNext]_vars

EvaluateNext ==
    \/ TopicCiting \/ MethodCiting \/ TopicSearch
    \/ CollectPaper \/ SortAuthors \/ EvaluateCandidate \/ SortAndReturn

InitEvaluate == EvaluateInit /\ NormIdle /\ PureIdle

\* find_referees from the citing-paper queries to its return; it runs on, a
\* statement that can execute does execute
SpecEvaluate == InitEvaluate /\ [][EvaluateNext]_vars /\ WF_vars(EvaluateNext)

KeywordsNext == CallExtractKeywords

\* _extract_topic_keywords on the modelled matches of its patterns
InitKeywords == KeywordsInit /\ NormIdle /\ FinderIdle

SpecKeywords == InitKeywords /\ [][KeywordsNext]_vars

(***************************************************************************)
(* Properties of find_referees                                             *)
(***************************************************************************)
\* a and b as fractions: a < b, a <= b
FracLt(a, b) == a.num * b.den < b.num * a.den
FracLeq(a, b) == a.num * b.den <= b.num * a.den

\* the position at which an author was evaluated
EvalPos(name) == CHOOSE i \in 1..Len(sorted_authors) : sorted_authors[i].name = name

\* C1: find_referees returns the first num_candidates of the surviving
\* candidates sorted by descending final relevance: at most num_candidates
\* entries, relevance non-increasing, no survivor left out scores strictly
\* higher than a returned one, and the final sort keeps every survivor.
C1_ReturnsTopByRelevance ==
    /\ [](pc = "done" =>
            /\ Len(result) = Min(args.num_candidates, Len(candidates))
            /\ \A i \in 1..Len(result) : result[i] = candidates[i]
            /\ \A i \in 1..Len(candidates), j \in 1..Len(candidates) :
                 i < j => FracLeq(candidates[j].relevance_score,
                                  candidates[i].relevance_score)
            /\ \A i \in 1..Len(result), j \in (Len(result) + 1)..Len(candidates) :
                 ~FracLt(result[i].relevance_score, candidates[j].relevance_score))
    /\ [][pc' = "done" =>
            /\ Len(candidates') = Len(candidates)
            /\ SeqToSet(candidates') = SeqToSet(candidates)]_vars

\* a survivor evaluated later outranks an earlier one and alone is returned
C1_Witness ==
    /\ pc = "done"
    /\ Len(result) = 1
    /\ \E j \in 2..Len(candidates) :
         /\ FracLt(candidates[j].relevance_score, result[1].relevance_score)
         /\ EvalPos(candidates[j].author_name) < EvalPos(result[1].author_name)

\* C2: when fetch_paper cannot resolve the target, find_referees raises at
\* once: no Citation Graph Adapter call has been made and nothing is returned;
\* and it raises this error in no other case.
C2_NotFoundAborts ==
    /\ (pc # "fetch" /\ paper = NoPaper) =>
          /\ pc = "raised"
          /\ error = "ValueError"
          /\ inspire_log = <<>>
          /\ result = <<>>
          /\ candidates = <<>>
    /\ error = "ValueError" => (pc = "raised" /\ paper = NoPaper)

C2_Witness == pc = "raised" /\ error = "ValueError" /\ paper = NoPaper

EligibleStages == {"Postdoc", "Junior Faculty", "Mid-Career"}

\* C3: every returned candidate has a resolvable profile whose career stage
\* is Postdoc, Junior Faculty or Mid-Career, and is_eligible holds of it.
C3_ReturnedAreEligible ==
    pc = "done" =>
        \A i \in 1..Len(result) :
            LET c == result[i]
                profile == AuthorDirectory(world, c.author_name)
            IN  /\ profile.found
                /\ career_stage(get_author_info(c.author_name, profile)) \in EligibleStages
                /\ career_stage(c.author) \in EligibleStages
                /\ is_eligible(c)

\* a candidate is returned although an author with a higher ranking key was
\* evaluated before it and skipped for its profile or stage
C3_Witness ==
    /\ pc = "done"
    /\ result # <<>>
    /\ \E i \in 1..Len(sorted_authors) :
         /\ i < EvalPos(result[1].author_name)
         /\ LET n == sorted_authors[i].name
            IN  StageSkip(AuthorDirectory(world, n),
                          get_author_info(n, AuthorDirectory(world, n)))
                  \in {"not_found_inspire", "unknown_career", "career_senior",
                       "career_graduate student"}

\* a co-author of one of the author's recent papers, as the adapter reports
\* them, matches a target author under names_match
CoauthorMatchesTarget(name) ==
    LET papers == get_author_papers(RecentPapersDirectory(world, name))
    IN  \E i \in 1..Len(papers) : \E k \in 1..Len(papers[i].authors) :
            /\ NormalizeNameTable[papers[i].authors[k]] # NormalizeNameTable[name]
            /\ \E t \in 1..Len(paper.authors) :
                 NamesMatchTable[papers[i].authors[k]][paper.authors[t]] = "True"

\* C4: a candidate with a recent co-author who matches a target author under
\* the name-matching rule is skipped as a conflict and never returned.
C4_ConflictNeverReturned ==
    pc = "done" =>
        \A i \in 1..Len(result) : ~CoauthorMatchesTarget(result[i].author_name)

\* C5: no name that matches a target author under names_match is in the
\* candidate pool, among the survivors or among the returned candidates.
C5_NoTargetAuthorCollected ==
    LET Clear(name) ==
            \A t \in 1..Len(paper.authors) :
                NamesMatchTable[name][paper.authors[t]] = "False"
    IN  /\ \A i \in 1..Len(author_data) : Clear(author_data[i].name)
        /\ \A i \in 1..Len(sorted_authors) : Clear(sorted_authors[i].name)
        /\ \A i \in 1..Len(candidates) : Clear(candidates[i].author_name)
        /\ \A i \in 1..Len(result) : Clear(result[i].author_name)

\* a candidate is returned for a paper one of whose other authors matches a
\* target author other than the first
C5_Witness ==
    /\ pc = "done"
    /\ \E i \in 1..Len(result) : \E j \in 1..Len(all_papers) :
         /\ all_papers[j].arxiv_id \in SeqToSet(result[i].relevant_papers)
         /\ \E k \in 1..Len(all_papers[j].authors) : \E t \in 2..Len(paper.authors) :
              /\ NamesMatchTable[all_papers[j].authors[k]][paper.authors[t]] = "True"
              /\ NamesMatchTable[all_papers[j].authors[k]][paper.authors[1]] = "False"

(***************************************************************************)
(* Properties of the scores and of is_eligible                             *)
(***************************************************************************)
\* C6: the final relevance lies in [0, 1] and equals
\* min(ref_score + topic_bonus + paper_count_bonus, 1.0), for every
\* shared-reference total, topic-match count, paper count and reference-list
\* length, the empty reference list included.
C6_FinalRelevanceClamped ==
    fn_pc = "done" =>
        LET d == fn_in.data
            n == Len(d.papers)
            ref_den == Max(Min(Len(fn_in.all_refs), 10) * n, 1)
            \* ref_score + topic_bonus + paper_count_bonus = sum / (10 * ref_den)
            sum == 10 * d.shared_refs_total
                   + (Min(2 * d.topic_match_count, 4) + Min(n, 2)) * ref_den
        IN  /\ fn_out.den > 0
            /\ 0 <= fn_out.num
            /\ fn_out.num <= fn_out.den
            /\ sum <= 10 * ref_den => fn_out.num * 10 * ref_den = sum * fn_out.den
            /\ sum >= 10 * ref_den => fn_out.num = fn_out.den

\* the three terms add up to more than 1 over an empty reference list
C6_Witness ==
    /\ fn_pc = "done"
    /\ fn_in.all_refs = <<>>
    /\ fn_in.data.shared_refs_total > 1
    /\ fn_in.data.topic_match_count > 0
    /\ fn_out.num = fn_out.den

\* C7: calculate_relevance_score returns a value in [0.0, 1.0] for every
\* list of papers, keywords and categories, and 0.0 for no papers.
C7_ScoreInUnitInterval ==
    fn_pc = "done" =>
        /\ fn_out.den > 0
        /\ 0 <= fn_out.num
        /\ fn_out.num <= fn_out.den
        /\ fn_in.candidate_papers = <<>> => fn_out.num = 0

\* every keyword and category matched: the average is 1 and the bonus is cut
C7_Witness ==
    /\ fn_pc = "done"
    /\ fn_in.candidate_papers # <<>>
    /\ fn_in.target_keywords # <<>>
    /\ fn_in.target_categories # <<>>
    /\ fn_out.num = fn_out.den

\* C8: is_eligible is (career_stage in {Postdoc, Junior Faculty, Mid-Career}),
\* whatever the relevance score and the relevant papers, and false when the
\* stage is unknown.
C8_EligibleIffStage ==
    fn_pc = "done" =>
        LET stage == career_stage(fn_in.author)
        IN  /\ fn_out = (stage \in EligibleStages)
            /\ stage = None => ~fn_out
            /\ \A s \in EligScores, p \in EligPaperLists :
                 is_eligible([fn_in EXCEPT !.relevance_score = s,
                                           !.relevant_papers = p]) = fn_out

\* eligible by years of career, with a zero score and no relevant paper
C8_Witness ==
    /\ fn_pc = "done"
    /\ fn_out
    /\ fn_in.author._rank_stage = None
    /\ fn_in.relevance_score.num = 0
    /\ fn_in.relevant_papers = <<>>

(***************************************************************************)
(* Properties of normalize_arxiv_id                                        *)
(***************************************************************************)
\* C9: normalize_arxiv_id(normalize_arxiv_id(x)) = normalize_arxiv_id(x) for
\* every input x.
C9_NormalizeIdempotent == nz_pc = "twice" => nz_twice = nz_once

\* C10: the versioned URL and the bare identifier of one paper both
\* normalize to the bare identifier 2401.12345.
C10_SpellingsNormalizeToBareId ==
    (nz_pc # "call" /\ nz_in \in {S_https \o F_abs \o F_id \o F_v2, F_id}) =>
        nz_once = F_id

(***************************************************************************)
(* Properties of names_match                                               *)
(***************************************************************************)
\* C11: names_match(a, b) and names_match(b, a) have the same outcome, for
\* every pair of names.
C11_NamesMatchSymmetric == fn_pc = "done" => fn_out.ab = fn_out.ba

\* two different spellings that match, called both ways round
C11_Witness ==
    /\ fn_pc = "done"
    /\ fn_in.a.form = "Last, First"
    /\ fn_in.b.form = "First Last"
    /\ fn_in.a.first # fn_in.b.first
    /\ fn_out.ab = "True"
    /\ fn_out.ba = "True"

\* the normal form the rule gives a person's name: first and last token,
\* lowercased, one blank between them
RuleNormalForm(d) ==
    IF d.form = "Last" THEN Lower(d.last)
    ELSE Lower(d.first) \o <<" ">> \o Lower(d.last)

\* the first token's initial under the rule
RuleInitial(d) == IF d.form = "Last" THEN Lower(d.last)[1] ELSE Lower(d.first)[1]

\* C12: for every pair of names that are not blank, each name normalizes to
\* its lowercased first and last token, and names_match is true exactly when
\* the normal forms are equal, or the last tokens are equal and the first
\* tokens' initials are equal.
C12_NamesMatchIsTheRule ==
    (fn_pc # "call" /\ fn_in.a.form # "blank" /\ fn_in.b.form # "blank") =>
        /\ normalize_author_name(Render(fn_in.a)) = RuleNormalForm(fn_in.a)
        /\ normalize_author_name(Render(fn_in.b)) = RuleNormalForm(fn_in.b)
        /\ fn_out.ab \in {"True", "False"}
        /\ fn_out.ab = "True" <=>
             \/ RuleNormalForm(fn_in.a) = RuleNormalForm(fn_in.b)
             \/ /\ Lower(fn_in.a.last) = Lower(fn_in.b.last)
                /\ RuleInitial(fn_in.a) = RuleInitial(fn_in.b)

\* "Last, First M." matches "First Last" of the same person
C12_Witness ==
    /\ fn_pc = "done"
    /\ fn_in.a.form = "Last, First"
    /\ fn_in.a.middle > 0
    /\ fn_in.b.form = "First Last"
    /\ fn_in.b.middle = 0
    /\ fn_in.a.first = fn_in.b.first
    /\ fn_in.a.last = fn_in.b.last
    /\ fn_out.ab = "True"

WittenEdward ==
    [form |-> "Last, First", first |-> <<"E","d","w","a","r","d">>, middle |-> 0,
     last |-> <<"W","i","t","t","e","n">>, blank |-> <<>>]

EdwardWitten == [WittenEdward EXCEPT !.form = "First Last"]

JohnSmith ==
    [form |-> "First Last", first |-> <<"J","o","h","n">>, middle |-> 0,
     last |-> <<"S","m","i","t","h">>, blank |-> <<>>]

JaneSmith == [JohnSmith EXCEPT !.first = <<"J","a","n","e">>]

\* C13 as the code has it: names_match("Witten, Edward", "Edward Witten") is
\* True, and names_match("John Smith", "Jane Smith") is True as well (same
\* last token, same first initial j).
C13_ExamplesAsComputed ==
    fn_pc # "call" =>
        /\ (fn_in.a = WittenEdward /\ fn_in.b = EdwardWitten) => fn_out.ab = "True"
        /\ (fn_in.a = JohnSmith /\ fn_in.b = JaneSmith) => fn_out.ab = "True"

C13_Witness ==
    /\ fn_pc = "done"
    /\ fn_in.a = JohnSmith
    /\ fn_in.b = JaneSmith
    /\ Render(fn_in.a) = <<"J","o","h","n"," ","S","m","i","t","h">>
    /\ fn_out.ab = "True"

\* C13 as stated: names_match("Witten, Edward", "Edward Witten") is True and
\* names_match("John Smith", "Jane Smith") is False.
C13_ExamplesAsStated ==
    fn_pc # "call" =>
        /\ (fn_in.a = WittenEdward /\ fn_in.b = EdwardWitten) => fn_out.ab = "True"
        /\ (fn_in.a = JohnSmith /\ fn_in.b = JaneSmith) => fn_out.ab = "False"

(***************************************************************************)
(* Properties of career_stage                                              *)
(***************************************************************************)
\* C14: the stage is the override when the rank gives one, whatever
\* first_paper_year is; otherwise, with years = current year minus
\* first_paper_year: below 2 Graduate Student, 2..5 Postdoc, 6..10 Junior
\* Faculty, 11..20 Mid-Career, above 20 Senior, and unknown when
\* first_paper_year is unknown.
C14_CareerStageBands ==
    fn_pc = "done" =>
        LET override == RANK_MAP(fn_in.rank)
            years == CurrentYear - fn_in.first_paper_year
        IN  IF override # None THEN fn_out = override
            ELSE IF fn_in.first_paper_year \in {NoYear, 0} THEN fn_out = None
            ELSE /\ years < 2 <=> fn_out = "Graduate Student"
                 /\ years \in 2..5 <=> fn_out = "Postdoc"
                 /\ years \in 6..10 <=> fn_out = "Junior Faculty"
                 /\ years \in 11..20 <=> fn_out = "Mid-Career"
                 /\ years > 20 <=> fn_out = "Senior"

\* no override, a first paper five years ago: Postdoc
C14_Witness ==
    /\ fn_pc = "done"
    /\ fn_in.rank = "VISITOR"
    /\ fn_in.first_paper_year = CurrentYear - 5
    /\ fn_out = "Postdoc"

(***************************************************************************)
(* Properties of the candidate pool                                        *)
(***************************************************************************)
\* the first record of all_papers with this identifier
FirstRecord(id) ==
    all_papers[CHOOSE j \in 1..Len(all_papers) :
                  /\ all_papers[j].arxiv_id = id
                  /\ \A k \in 1..(j - 1) : all_papers[k].arxiv_id # id]

\* no author of the target paper matches this name
NotOnTarget(name) ==
    \A t \in 1..Len(paper.authors) : NamesMatchTable[name][paper.authors[t]] = "False"

\* C15: however often a paper identifier occurs in the co-citation and
\* topic-search pools, every non-target author of the paper has it once in
\* the list of relevant papers, and its shared-reference weight once in the
\* total.
C15_PaperCountedOnce ==
    pc \in {"collect", "evaluate", "done"} =>
        /\ \A i \in 1..Len(author_data) :
             LET d == author_data[i]
             IN  /\ \A k, l \in 1..Len(d.papers) : d.papers[k] = d.papers[l] => k = l
                 /\ d.shared_refs_total =
                      Sum([k \in 1..Len(d.papers) |-> FirstRecord(d.papers[k]).shared_refs])
        /\ \A j \in 1..(cp_i - 1) :
             all_papers[j].num_authors <= MaxAuthors =>
                \A a \in 1..Len(all_papers[j].authors) :
                    NotOnTarget(all_papers[j].authors[a]) =>
                        \E i \in 1..Len(author_data) :
                            /\ author_data[i].name = all_papers[j].authors[a]
                            /\ Cardinality({ k \in 1..Len(author_data[i].papers) :
                                   author_data[i].papers[k] = all_papers[j].arxiv_id }) = 1

\* a paper found by co-citation with a positive weight and again by topic
\* search, and one of its authors returned
C15_Witness ==
    /\ pc = "done"
    /\ \E i \in 1..Len(co_citing_papers), j \in 1..Len(topic_papers) :
         /\ co_citing_papers[i].arxiv_id = topic_papers[j].arxiv_id
         /\ co_citing_papers[i].shared_refs > 0
         /\ \E c \in 1..Len(result) :
              result[c].relevant_papers = <<topic_papers[j].arxiv_id>>

(***************************************************************************)
(* Properties of the sampling adapter calls                                *)
(***************************************************************************)
\* C16: with upstream fixed, a second invocation on the same arguments gives
\* what the first gave: the same candidate papers from the co-citation
\* query and the same mainstream index, also for more than 5 classified or
\* more than 10 linked references.
C16_RepeatedInvocationsAgree ==
    fn_pc = "done" => fn_out.first.value = fn_out.second.value

(***************************************************************************)
(* Properties of the reference weights                                     *)
(***************************************************************************)
\* the target's references the upstream record with this identifier cites
HitRefs(id) == (CHOOSE h \in SeqToSet(Hits) : h.arxiv_id = id).refs

\* shared_refs_total of the author in the accumulated data, 0 when absent
TotalOf(data, name) ==
    IF \E i \in 1..Len(data) : data[i].name = name
    THEN (CHOOSE d \in SeqToSet(data) : d.name = name).shared_refs_total
    ELSE 0

\* the candidate pool is one paper citing both topic references, found by the
\* citation queries, and the collection is over
TwoTopicRefsScenario ==
    /\ pc \in {"evaluate", "done"}
    /\ topic_refs = <<1, 2>>
    /\ Len(method_refs) = 8
    /\ Len(all_papers) = 1
    /\ HitRefs(all_papers[1].arxiv_id) = {1, 2}
    /\ Len(all_papers[1].authors) = 3
    /\ ~all_papers[1].topic_match

\* the steps of find_referees that set and add up the weights
WeighingStep ==
    /\ (pc = "topic_citing" /\ pc' = "method_citing") =>
          \A i \in 1..Len(co_citing_papers') :
              co_citing_papers'[i].shared_refs =
                  2 * Cardinality(HitRefs(co_citing_papers'[i].arxiv_id)
                                  \cap SeqToSet(topic_refs))
    /\ (pc = "method_citing" /\ pc' = "topic_search") =>
          /\ Len(co_citing_papers') >= Len(co_citing_papers)
          /\ SubSeq(co_citing_papers', 1, Len(co_citing_papers)) = co_citing_papers
          /\ \A i \in (Len(co_citing_papers) + 1)..Len(co_citing_papers') :
                co_citing_papers'[i].shared_refs =
                    Cardinality(HitRefs(co_citing_papers'[i].arxiv_id)
                                \cap SeqToSet(method_refs))
    /\ (pc = "collect" /\ cp_i' = cp_i + 1 /\ seen_papers' # seen_papers) =>
          \A a \in 1..Len(all_papers[cp_i].authors) :
              LET name == all_papers[cp_i].authors[a]
              IN  NotOnTarget(name) =>
                    TotalOf(author_data', name) =
                        TotalOf(author_data, name) + all_papers[cp_i].shared_refs

\* C17: a record of the topic-reference query carries twice the number of
\* topic references its paper cites, a record of the method-reference query
\* the plain number of method references it cites, and a collected paper adds
\* its record's weight to the total of each of its non-target authors.  With
\* 2 topic and 8 method references and one 3-author paper citing both topic
\* references, each collected author has a total of 4 and a positive ranking
\* key whose citation term exceeds the other two terms together.
C17_TopicRefsWeighDouble ==
    /\ [][WeighingStep]_vars
    /\ [](TwoTopicRefsScenario =>
            \A i \in 1..Len(author_data) :
                LET d == author_data[i]
                    key == RankingKey(d, args, target_mainstream)
                    citation_term == d.shared_refs_total * args.citation_weight
                                       * (IF args.niche_only THEN 10 ELSE 50)
                IN  /\ d.shared_refs_total = 4
                    /\ key > 0
                    /\ citation_term > key - citation_term)

\* the scenario with a target none of the three authors is on, returned
C17_Witness ==
    /\ TwoTopicRefsScenario
    /\ pc = "done"
    /\ method_refs = <<3, 4, 5, 6, 7, 8, 9, 10>>
    /\ Len(author_data) = 3
    /\ \A i \in 1..3 : author_data[i].shared_refs_total = 4

(***************************************************************************)
(* Properties of the adapter's failures                                    *)
(***************************************************************************)
\* the positions of find_referees at which the next step calls the adapter
AdapterCallSites ==
    {"keywords", "refs", "topic_citing", "method_citing", "topic_search", "evaluate"}

\* what each sub-query gives when the adapter has no data for it
FailedQueriesAreEmpty ==
    /\ \A r \in MainstreamResponses : ~r.found => calculate_mainstream_index(r) = 50
    /\ \A r \in RefResponses : ~r.ok => r.topic = <<>> /\ r.method = <<>>
    /\ get_papers_citing_refs(topic_refs, Failed) = <<>>
    /\ get_papers_citing_refs(method_refs, Failed) = <<>>
    /\ search_papers_by_topic(Failed, TopicMaxResults) = <<>>

\* a step from a call site goes on without an error; the candidate without
\* an author record is counted as not found and left out
FailureTolerantStep ==
    /\ pc \in AdapterCallSites => pc' # "raised" /\ error' = error
    /\ (pc = "evaluate" /\ ev_i' = ev_i + 1
        /\ AuthorDirectory(world, sorted_authors[ev_i].name) = NoProfile) =>
          /\ candidates' = candidates
          /\ skipped_reasons' =
               [skipped_reasons EXCEPT !["not_found_inspire"] = @ + 1]

\* C18: once the target paper is resolved, no step that calls the Citation
\* Graph Adapter raises, whatever the adapter answers; a sub-query without
\* data gives the empty result (mainstream index 0.5, no references, no
\* citing papers, no topic papers), a candidate without an author record is
\* skipped as not found, and the only error after the resolution comes from a
\* record the adapter did deliver (an author without a name), never from a
\* failure.
C18_AdapterFailureNeverAborts ==
    /\ [][FailureTolerantStep]_vars
    /\ []FailedQueriesAreEmpty
    /\ [](pc = "raised" =>
            \/ paper = NoPaper /\ error = "ValueError"
            \/ /\ error = "IndexError"
               /\ cp_i <= Len(all_papers)
               /\ "" \in SeqToSet(all_papers[cp_i].authors))

\* find_referees has returned although the mainstream and the reference
\* queries gave nothing and a candidate's author record was not found
C18_Witness ==
    /\ pc = "done"
    /\ target_mainstream = 50
    /\ topic_refs = <<>> /\ method_refs = <<>> /\ co_citing_papers = <<>>
    /\ skipped_reasons["not_found_inspire"] > 0
    /\ Len(result) > 0

(***************************************************************************)
(* Properties of _get                                                      *)
(***************************************************************************)
\* the requests made so far, but the last, all failed
EarlierRequestsFailed ==
    \A k \in 1..(Len(fn_out.requests) - 1) : fn_out.requests[k] \in RequestExceptions

\* C19: _get makes at most 3 requests, waits the same 2 seconds before each
\* repeated one, and then returns: the body of the first request that
\* succeeded, after which no request is made, or no data when all 3 requests
\* failed, and not before.
C19_RetriesBoundedFirstSuccess ==
    /\ [](Len(fn_out.requests) <= max_retries)
    /\ [](fn_pc \in {"request", "returned"} =>
            fn_out.waited = RetryWait * fn_out.attempt)
    /\ [](fn_pc = "returned" /\ fn_out.value # None =>
            /\ fn_out.requests # <<>>
            /\ fn_out.value = fn_out.requests[Len(fn_out.requests)]
            /\ fn_out.value \in JsonBodies
            /\ EarlierRequestsFailed)
    /\ [](fn_pc = "returned" /\ fn_out.value = None =>
            /\ Len(fn_out.requests) = max_retries
            /\ \A k \in 1..max_retries : fn_out.requests[k] \in RequestExceptions)
    /\ [][fn_pc = "returned" => fn_out' = fn_out]_vars
    /\ <>(fn_pc = "returned")

\* two requests failed and were waited for, the third succeeded and is returned
C19_Witness ==
    /\ fn_pc = "returned"
    /\ Len(fn_out.requests) = max_retries
    /\ fn_out.requests[1] = "Timeout"
    /\ fn_out.value = "hits"
    /\ fn_out.waited = 2 * RetryWait

(***************************************************************************)
(* Properties of calculate_mainstream_index                                *)
(***************************************************************************)
\* the upstream conditions under which no index can be computed
Unresolved ==
    \/ fn_in.upstream \in {"not_found", "no_references", "none_linked",
                           "no_reference_data"}
    \/ fn_in.n = 0

\* the invocations of calculate_mainstream_index that have returned
Returned ==
    IF fn_in.site # "mainstream" THEN {}
    ELSE CASE fn_pc = "again" -> {fn_out.first}
           [] fn_pc = "done" -> {fn_out.first, fn_out.second}
           [] OTHER -> {}

\* C20: the index calculate_mainstream_index returns lies in [0, 1]; it is
\* exactly 0.5, with an error entry in the details, when the paper is not
\* found, has no references, has no linked reference, or no sampled
\* reference's record could be fetched; when references are linked, the
\* sample holds min(10, number of linked references) distinct ones of them,
\* and when their records are fetched the details carry no error.
C20_MainstreamIndexBounded ==
    \A o \in Returned :
        /\ 0 <= o.value /\ o.value <= 100
        /\ Unresolved => o.value = 50 /\ o.details.error # None
        /\ ~Unresolved => o.details.error = None
        /\ (fn_in.n > 0 /\ fn_in.upstream \in Answers \cup {"no_reference_data"}) =>
              /\ o.sample \subseteq 1..fn_in.n
              /\ Cardinality(o.sample) = Min(10, fn_in.n)

\* 11 linked references, each cited 9999 times, in a list of 111: 10 of them
\* sampled, both scores at their caps
C20_Witness ==
    /\ fn_pc = "done"
    /\ fn_in = [site |-> "mainstream", upstream |-> "well_cited", n |-> MaxRefIds]
    /\ Cardinality(fn_out.first.sample) = 10
    /\ fn_out.first.value = 97

(***************************************************************************)
(* Properties of the citation score                                        *)
(***************************************************************************)
\* C21: when every sampled reference has a citation count of 0, the citation
\* score is 0, so that the mainstream index is 0.3 * ref_count_score with
\* ref_count_score = min(number of references / 100, 0.9), rounded to
\* hundredths.
C21_NoCitationsScoreZero ==
    \A o \in Returned :
        (fn_in.upstream = "uncited" /\ fn_in.n > 0) =>
            /\ o.details.citation_score = 0
            /\ o.value = (2 * 9 * Min(o.details.num_references, 90) + 30) \div 60

(***************************************************************************)
(* Properties of _extract_topic_keywords                                   *)
(***************************************************************************)
\* the position of the first occurrence of a keyword in a list
FirstIndex(q, kw) == CHOOSE i \in 1..Len(q) : q[i] = kw /\ \A j \in 1..(i - 1) : q[j] # kw

\* C22: the keywords returned hold no duplicate and number at most 8.  In
\* niche-only mode they are niche keywords only (pattern matches of the
\* niche tier, and the title's trailing subject of at most 4 words), as many
\* as there are up to 8, and the first 4 broad keywords are returned instead
\* exactly when there is no niche keyword.  Otherwise they are the first 8
\* distinct keywords of the niche, broad and method keywords in this order.
C22_KeywordsTieredAndCapped ==
    fn_pc = "done" =>
        LET out == fn_out
            niche == niche_keywords(fn_in.topic, fn_in.subject)
            all_found == niche \o fn_in.broad \o fn_in.method
        IN  /\ \A i, j \in 1..Len(out) : out[i] = out[j] => i = j
            /\ Len(out) <= 8
            /\ (fn_in.subject.words > 4 => fn_in.subject.text \notin SeqToSet(out))
            /\ (fn_in.niche_only /\ niche # <<>>) =>
                  /\ SeqToSet(out) \subseteq SeqToSet(niche)
                  /\ Len(out) = Min(8, Cardinality(SeqToSet(niche)))
                  /\ \A i, j \in 1..Len(out) :
                        i < j => FirstIndex(niche, out[i]) < FirstIndex(niche, out[j])
            /\ (fn_in.niche_only /\ niche = <<>>) =>
                  out = SubSeq(fn_in.broad, 1, Min(4, Len(fn_in.broad)))
            /\ ~fn_in.niche_only =>
                  /\ SeqToSet(out) \subseteq SeqToSet(all_found)
                  /\ Len(out) = Min(8, Cardinality(SeqToSet(all_found)))
                  /\ \A i, j \in 1..Len(out) :
                        i < j => FirstIndex(all_found, out[i]) < FirstIndex(all_found, out[j])
                  /\ \A k \in SeqToSet(all_found) \ SeqToSet(out), i \in 1..Len(out) :
                        FirstIndex(all_found, out[i]) < FirstIndex(all_found, k)

\* the title's subject is also a pattern match, and more than 8 distinct
\* keywords of all three tiers were found
C22_Witness ==
    /\ fn_pc = "done"
    /\ ~fn_in.niche_only
    /\ fn_in.subject.text = "dark matter"
    /\ "dark matter" \in SeqToSet(fn_in.topic)
    /\ Len(fn_in.topic) = 5
    /\ fn_in.broad = BroadPatternKeywords
    /\ fn_in.method # <<>>
    /\ Len(fn_out) = 8
    /\ fn_out[1] = "dark matter"
    /\ fn_out[6] = "quantum gravity"

(***************************************************************************)
(* Properties of the collaboration size limit                              *)
(***************************************************************************)
\* the upstream record with this identifier
HitOf(id) == CHOOSE h \in SeqToSet(Hits \o CollabHits) : h.arxiv_id = id

\* the author's accumulators hold the paper
Accumulated(name, id) ==
    \E i \in 1..Len(author_data) :
        /\ author_data[i].name = name
        /\ id \in SeqToSet(author_data[i].papers)

\* C23: of the papers the loop has gone through, one with more than 15
\* authors is in no author's accumulators, and one with at most 15 authors is
\* in the accumulators of each of its authors who is not an author of the
\* target paper.
C23_LargeCollaborationsOnlyExcluded ==
    pc \in {"collect", "evaluate", "done"} =>
        \A j \in 1..(cp_i - 1) :
            LET h == HitOf(all_papers[j].arxiv_id)
            IN  IF h.num_authors > MaxAuthors
                THEN \A i \in 1..Len(author_data) :
                        h.arxiv_id \notin SeqToSet(author_data[i].papers)
                ELSE \A a \in 1..Len(h.authors) :
                        NotOnTarget(h.authors[a]) => Accumulated(h.authors[a], h.arxiv_id)

(***************************************************************************)
(* Properties of the evaluation order                                      *)
(***************************************************************************)
\* the authors whose profile was looked up, in the order of the lookups
ProfileLookups ==
    LET calls == SelectSeq(inspire_log, LAMBDA c : c[1] = "get_author_info")
    IN  [k \in 1..Len(calls) |-> calls[k][2]]

\* the ranking key of an author, from the accumulators of the collection loop
KeyOf(name) ==
    LET d == CHOOSE d \in SeqToSet(author_data) : d.name = name
    IN  d.topic_match_count
          * (IF args.niche_only THEN args.topic_weight * 300
             ELSE args.topic_weight * (100 + (100 - target_mainstream)))
        + d.shared_refs_total
          * (IF args.niche_only THEN args.citation_weight * 2 ELSE args.citation_weight * 10) * 5
        + Len(d.papers) * 100

\* C24: profile lookups are issued in non-increasing order of the ranking key
\* (in thousandths: topic_match_count * effective_topic_weight
\* + shared_refs_total * effective_citation_weight * 0.5 + paper_count * 0.1),
\* each author is looked up at most once, and no author still waiting has a
\* higher key than one already looked up.
C24_EvaluatedInKeyOrder ==
    pc \in {"evaluate", "done"} =>
        /\ \A k \in 1..Len(ProfileLookups) :
             \E d \in SeqToSet(author_data) : d.name = ProfileLookups[k]
        /\ \A k \in 1..Len(ProfileLookups), l \in 1..Len(ProfileLookups) :
             k < l => /\ ProfileLookups[k] # ProfileLookups[l]
                      /\ KeyOf(ProfileLookups[k]) >= KeyOf(ProfileLookups[l])
        /\ \A k \in 1..Len(ProfileLookups), i \in 1..Len(author_data) :
             author_data[i].name \notin SeqToSet(ProfileLookups) =>
                 KeyOf(author_data[i].name) <= KeyOf(ProfileLookups[k])

\* two authors were looked up, the one collected later first because its key
\* is strictly higher
C24_Witness ==
    /\ pc = "done"
    /\ \E i \in 1..Len(author_data), j \in 1..Len(author_data) :
         /\ i < j
         /\ KeyOf(author_data[j].name) > KeyOf(author_data[i].name)
         /\ \E k \in 1..Len(ProfileLookups), l \in 1..Len(ProfileLookups) :
              /\ k < l
              /\ ProfileLookups[k] = author_data[j].name
              /\ ProfileLookups[l] = author_data[i].name

(***************************************************************************)
(* Properties of the evaluation loop's stopping rule                       *)
(***************************************************************************)
\* the loop over sorted_authors has stopped, or stops before its next lookup
LoopStopped ==
    \/ pc = "done"
    \/ /\ pc = "evaluate"
       /\ (Len(candidates) >= 3 * args.num_candidates \/ ev_i > Len(sorted_authors))

\* C25: the number of surviving candidates never exceeds 3 * num_candidates;
\* the loop is left only with 3 * num_candidates survivors or with every
\* author of the pool evaluated; once it has stopped no adapter call is
\* made and no candidate is evaluated; and every invocation comes to its end.
C25_LoopStopsAtThreeTimes ==
    /\ [](Len(candidates) <= 3 * args.num_candidates)
    /\ [](pc = "done" =>
            \/ Len(candidates) = 3 * args.num_candidates
            \/ ev_i = Len(sorted_authors) + 1)
    /\ [][LoopStopped =>
            /\ inspire_log' = inspire_log
            /\ evaluated' = evaluated
            /\ skipped_reasons' = skipped_reasons]_vars
    /\ <>(pc \in {"done", "raised"})

\* the loop stopped at three survivors with authors of the pool left over,
\* none of whom was looked up
C25_Witness ==
    /\ pc = "done"
    /\ args.num_candidates = 1
    /\ Len(candidates) = 3
    /\ ev_i <= Len(sorted_authors)
    /\ \A i \in ev_i..Len(sorted_authors) :
         \A k \in 1..Len(inspire_log) :
             Len(inspire_log[k]) = 2 => inspire_log[k][2] # sorted_authors[i].name

(***************************************************************************)
(* Properties of the skip accounting                                       *)
(***************************************************************************)
\* the sum of the counts of skipped_reasons
SkippedTotal ==
    skipped_reasons["not_found_inspire"] + skipped_reasons["unknown_career"]
    + skipped_reasons["career_graduate student"] + skipped_reasons["career_senior"]
    + skipped_reasons["conflict"]

\* the first check an author fails, in the order of the loop; None when the
\* author passes them all
FirstFailingCheck(name) ==
    LET profile == AuthorDirectory(world, name)
        stage == career_stage(get_author_info(name, profile))
    IN  CASE ~profile.found -> "not_found_inspire"
          [] profile.found /\ stage = None -> "unknown_career"
          [] profile.found /\ stage = "Graduate Student" -> "career_graduate student"
          [] profile.found /\ stage = "Senior" -> "career_senior"
          [] OTHER ->
               IF check_collaboration(name, paper.authors,
                                      RecentPapersDirectory(world, name))
               THEN "conflict" ELSE None

\* C26: the accumulators are empty until the evaluation loop starts; at
\* every point evaluated = survivors + the sum of the skip counts; each
\* evaluation either adds one survivor and leaves the counts alone, or adds
\* one to the count of the first failing check (not found, unknown career,
\* ineligible stage tagged by the stage, conflict) and to no other; and it
\* never raises.
C26_SkipAccounting ==
    /\ [](pc \notin {"evaluate", "done"} =>
            /\ evaluated = 0
            /\ candidates = <<>>
            /\ SkippedTotal = 0)
    /\ [](evaluated = Len(candidates) + SkippedTotal)
    /\ [][evaluated' # evaluated =>
            LET why == FirstFailingCheck(sorted_authors[ev_i].name)
            IN  /\ evaluated' = evaluated + 1
                /\ pc' = "evaluate"
                /\ error' = None
                /\ IF why = None
                   THEN /\ Len(candidates') = Len(candidates) + 1
                        /\ skipped_reasons' = skipped_reasons
                   ELSE /\ candidates' = candidates
                        /\ skipped_reasons' = [skipped_reasons EXCEPT ![why] = @ + 1]]_vars

\* one invocation that skipped for a conflict and for some other reason,
\* and kept a survivor
C26_Witness ==
    /\ pc = "done"
    /\ Len(candidates) >= 1
    /\ Cardinality({r \in Reasons : skipped_reasons[r] > 0}) >= 2
    /\ skipped_reasons["conflict"] >= 1

(***************************************************************************)
(* Properties of the deduplication across the source lists                 *)
(***************************************************************************)
\* the source lists in the order topic-reference citing papers,
\* method-reference citing papers, topic-search papers
SourceRecords == co_citing_papers \o topic_papers

\* the first record of a paper in the source lists
FirstInSources(id) ==
    SourceRecords[CHOOSE k \in 1..Len(SourceRecords) :
                     /\ SourceRecords[k].arxiv_id = id
                     /\ \A l \in 1..(k - 1) : SourceRecords[l].arxiv_id # id]

\* the identifiers found both by co-citation and by topic search
FoundTwice ==
    { co_citing_papers[i].arxiv_id : i \in 1..Len(co_citing_papers) }
      \cap { topic_papers[j].arxiv_id : j \in 1..Len(topic_papers) }

\* C27: every accumulated paper enters an author's accumulators with the
\* shared-reference weight and the topic-match flag of its first record in
\* the order topic-reference citing, method-reference citing, topic search;
\* the method-reference records are appended after the topic-reference
\* ones; and a paper found both by co-citation and by topic search counts
\* for no author as a topic match.
C27_FirstOccurrenceWins ==
    /\ [](pc \in {"collect", "evaluate", "done"} =>
            \A i \in 1..Len(author_data) :
                LET d == author_data[i]
                    first(k) == FirstInSources(d.papers[k])
                IN  /\ d.shared_refs_total =
                          Sum([k \in 1..Len(d.papers) |-> first(k).shared_refs])
                    /\ d.topic_match_count =
                          Cardinality({k \in 1..Len(d.papers) : first(k).topic_match})
                    /\ \A k \in 1..Len(d.papers) :
                          /\ d.max_shared_refs >= first(k).shared_refs
                          /\ d.papers[k] \in FoundTwice => ~first(k).topic_match
                    /\ d.topic_match_count
                          <= Cardinality(SeqToSet(d.papers) \ FoundTwice))
    /\ [][pc = "method_citing" =>
            SubSeq(co_citing_papers', 1, Len(co_citing_papers)) = co_citing_papers]_vars

\* a paper found by co-citation, with a positive weight, and again by topic
\* search: an author holds it at the co-citation weight and with no topic match
C27_Witness ==
    /\ pc = "done"
    /\ \E i \in 1..Len(author_data) :
         LET d == author_data[i]
         IN  /\ Len(d.papers) = 1
             /\ d.papers[1] \in FoundTwice
             /\ d.shared_refs_total = FirstInSources(d.papers[1]).shared_refs
             /\ d.shared_refs_total > 0
             /\ d.topic_match_count = 0

(***************************************************************************)
(* Properties of the self-exclusion check on names without a token         *)
(***************************************************************************)
\* C28: names_match returns a boolean for every author name of a gathered
\* record against every author of the target paper, also for a name that
\* normalizes to the empty string, and find_referees never ends with the
\* IndexError of names_match.
C28_NamesMatchNeverRaises ==
    /\ \A j \in 1..Len(all_papers) :
         \A a \in 1..Len(all_papers[j].authors), t \in 1..Len(paper.authors) :
             NamesMatchTable[all_papers[j].authors[a]][paper.authors[t]]
               \in {"True", "False"}
    /\ ~(pc = "raised" /\ error = "IndexError")

(***************************************************************************)
(* Properties of the target's queries under respelling                     *)
(***************************************************************************)
\* C29: for two spellings with the same normalized form, find_referees
\* issues the same queries, the literature queries naming the normalized
\* identifier, and gets the same mainstream index and classified references.
C29_SpellingInvariant ==
    (fn_pc = "done" /\ normalize_arxiv_id(fn_in.a) = normalize_arxiv_id(fn_in.b)) =>
        /\ fn_out.a = fn_out.b
        /\ fn_out.a.mainstream_query = LiteratureQuery(normalize_arxiv_id(fn_in.a))
        /\ fn_out.a.references_query = LiteratureQuery(normalize_arxiv_id(fn_in.a))

(***************************************************************************)
(* Properties of the conflict check without data                           *)
(***************************************************************************)
\* the lookup of the author's recent papers gives no data: the call failed
\* after its retries, or no paper it lists has an arXiv identifier
NoRecentData(name) ==
    LET recent == RecentPapersDirectory(world, name)
    IN  ~recent.ok \/ \A i \in 1..Len(recent.hits) : ~recent.hits[i].has_arxiv

\* C30: for a candidate whose recent papers give no data check_collaboration
\* returns false; its evaluation tallies no conflict, and when its profile
\* is found with an eligible stage it joins the survivors.
C30_ConflictCheckFailsOpen ==
    [][(evaluated' # evaluated /\ NoRecentData(sorted_authors[ev_i].name)) =>
          LET name == sorted_authors[ev_i].name
              profile == AuthorDirectory(world, name)
              stage == career_stage(get_author_info(name, profile))
          IN  /\ ~check_collaboration(name, paper.authors,
                                      RecentPapersDirectory(world, name))
              /\ skipped_reasons'["conflict"] = skipped_reasons["conflict"]
              /\ (profile.found /\ stage \in {"Postdoc", "Junior Faculty", "Mid-Career"}) =>
                    /\ Len(candidates') = Len(candidates) + 1
                    /\ candidates'[Len(candidates')].author_name = name]_vars

\* a referee is returned whose recent-papers lookup failed, and a survivor's
\* only recent paper, written with an author of the target, has no arXiv
\* identifier
C30_Witness ==
    /\ pc = "done"
    /\ \E c \in 1..Len(result) :
         ~RecentPapersDirectory(world, result[c].author_name).ok
    /\ \E c \in 1..Len(candidates) :
         LET recent == RecentPapersDirectory(world, candidates[c].author_name)
         IN  /\ recent.ok
             /\ recent.hits # <<>>
             /\ \A i \in 1..Len(recent.hits) : ~recent.hits[i].has_arxiv

=============================================================================
